---- MODULE Spec2Model ----
(***************************************************************************)
(* Verification model of the paint-assistant matching core:                *)
(* text normalisers, intent parsing, price resolution and product lookup.  *)
(* Python strings are TLA+ strings; characters are strings of length one.  *)
(***************************************************************************)
EXTENDS Integers, Sequences, FiniteSets, TLC

VARIABLES
    raw_data,        \* the price-list document read by _load_price_data
    payload,         \* the product-metadata document read by _load_raw_products
    _PRICE_DATA,     \* src/data/prices.py module cache: None or the price index
    products_cache,  \* lru_cache of get_all_products: None or the flat list
    op,              \* the operation of the call in flight
    arg,             \* its arguments
    pc,              \* "called" until the operation returns, then "returned"
    result,          \* its return value
    scores           \* similarity scores the external scorer returned to it

vars == <<raw_data, payload, _PRICE_DATA, products_cache, op, arg, pc, result, scores>>

None == "<None>"

(***************************************************************************)
(* Bounds of the explored input space.                                     *)
(***************************************************************************)
MaxLen == 4          \* longest string fed to the pure normalisers
MaxWords == 2        \* longest free-form word sequence in a chat message

(***************************************************************************)
(* Python str primitives.                                                  *)
(***************************************************************************)
Ch(s, i) == SubSeq(s, i, i)

WS == {" ", "\t"}
DIGITS == {"0", "1", "2", "3", "4", "5", "6", "7", "8", "9"}
LOWERS == {"a", "b", "c", "d", "e", "f", "g", "h", "i", "j", "k", "l", "m",
           "n", "o", "p", "q", "r", "s", "t", "u", "v", "w", "x", "y", "z"}
UPPERS == {"A", "B", "C", "D", "E", "F", "G", "H", "I", "J", "K", "L", "M",
           "N", "O", "P", "Q", "R", "S", "T", "U", "V", "W", "X", "Y", "Z"}
LETTERS == LOWERS \cup UPPERS

UpperAlphabet == "ABCDEFGHIJKLMNOPQRSTUVWXYZ"
LowerAlphabet == "abcdefghijklmnopqrstuvwxyz"

LowerMap == [c \in UPPERS |->
               Ch(LowerAlphabet, CHOOSE i \in 1..26 : Ch(UpperAlphabet, i) = c)]
UpperMap == [c \in LOWERS |->
               Ch(UpperAlphabet, CHOOSE i \in 1..26 : Ch(LowerAlphabet, i) = c)]

\* stand-in for KELVIN SIGN (U+212A): no ASCII letter, yet str.lower() turns
\* it into "k"
U212A == "@"

LowerCh(c) == IF c \in UPPERS THEN LowerMap[c] ELSE IF c = U212A THEN "k" ELSE c
UpperCh(c) == IF c \in LOWERS THEN UpperMap[c] ELSE c

RECURSIVE Lower(_)
Lower(s) == IF Len(s) = 0 THEN "" ELSE LowerCh(Head(s)) \o Lower(Tail(s))

RECURSIVE Upper(_)
Upper(s) == IF Len(s) = 0 THEN "" ELSE UpperCh(Head(s)) \o Upper(Tail(s))

\* s.lstrip(chars) / s.rstrip(chars) / s.strip(chars)
RECURSIVE LStripChars(_, _)
LStripChars(s, cs) ==
    IF Len(s) > 0 /\ Head(s) \in cs THEN LStripChars(Tail(s), cs) ELSE s

RECURSIVE RStripChars(_, _)
RStripChars(s, cs) ==
    IF Len(s) > 0 /\ Ch(s, Len(s)) \in cs
    THEN RStripChars(SubSeq(s, 1, Len(s) - 1), cs)
    ELSE s

StripChars(s, cs) == RStripChars(LStripChars(s, cs), cs)

\* s.strip()
Strip(s) == StripChars(s, WS)

\* s.split(): the maximal runs of non-whitespace characters, in order
RECURSIVE SplitOn(_, _)
SplitOn(s, seps) ==
    LET t == LStripChars(s, seps)
        n == IF \E i \in 1..Len(t) : Ch(t, i) \in seps
             THEN (CHOOSE i \in 1..Len(t) :
                     /\ Ch(t, i) \in seps
                     /\ \A j \in 1..(i - 1) : Ch(t, j) \notin seps) - 1
             ELSE Len(t)
    IN  IF Len(t) = 0 THEN <<>>
        ELSE <<SubSeq(t, 1, n)>> \o SplitOn(SubSeq(t, n + 1, Len(t)), seps)

Split(s) == SplitOn(s, WS)

\* sep.join(parts)
RECURSIVE Join(_, _)
Join(parts, sep) ==
    IF Len(parts) = 0 THEN ""
    ELSE IF Len(parts) = 1 THEN parts[1]
    ELSE parts[1] \o sep \o Join(Tail(parts), sep)

\* s.startswith(p, i - 1): p occurs in s at (1-based) position i
OccursAt(s, p, i) ==
    /\ i >= 1
    /\ i + Len(p) - 1 <= Len(s)
    /\ SubSeq(s, i, i + Len(p) - 1) = p

\* s.find(p) + 1: the first position at which p occurs, 0 when there is none
Find(s, p) ==
    IF \E i \in 1..(Len(s) + 1) : OccursAt(s, p, i)
    THEN CHOOSE i \in 1..(Len(s) + 1) :
           /\ OccursAt(s, p, i)
           /\ \A j \in 1..(i - 1) : ~OccursAt(s, p, j)
    ELSE 0

Contains(s, p) == Find(s, p) # 0

\* re.sub(r"\s+", " ", s)
RECURSIVE CollapseWS(_)
CollapseWS(s) ==
    IF Len(s) = 0 THEN ""
    ELSE IF Head(s) \in WS
         THEN " " \o CollapseWS(LStripChars(s, WS))
         ELSE Head(s) \o CollapseWS(Tail(s))

\* all strings over an alphabet of length at most n
RECURSIVE StringsUpTo(_, _)
StringsUpTo(alphabet, n) ==
    IF n = 0 THEN {""}
    ELSE {""} \cup {c \o s : c \in alphabet, s \in StringsUpTo(alphabet, n - 1)}

\* all sequences over a set of length at most n
RECURSIVE SeqsUpTo(_, _)
SeqsUpTo(S, n) ==
    IF n = 0 THEN {<<>>}
    ELSE {<<>>} \cup {<<x>> \o q : x \in S, q \in SeqsUpTo(S, n - 1)}

(***************************************************************************)
(* app.py: normalize_name.                                                 *)
(***************************************************************************)
\* the allow-list [\w\s\-\&/.:()]
NameAllowed == LETTERS \cup DIGITS \cup WS \cup {"_", "-", "&", "/", ".", ":", "(", ")"}

normalize_name(s) ==
    LET s1 == Strip(Lower(s))
        s2 == CollapseWS(s1)
    IN  SelectSeq(s2, LAMBDA c : c \in NameAllowed)

(***************************************************************************)
(* chatbot_config.py: ChatbotConfig defaults.                              *)
(***************************************************************************)
\* the default table but for "l", whose target "lt" is itself an alias of "ltr"
size_aliases_chained ==
    [l |-> "lt", lt |-> "ltr", ltr |-> "ltr", liter |-> "ltr", litre |-> "ltr",
     liters |-> "ltr", litres |-> "ltr",
     ml |-> "ml", milliliter |-> "ml", millilitre |-> "ml",
     milliliters |-> "ml", millilitres |-> "ml",
     g |-> "g", gram |-> "g", grams |-> "g",
     kg |-> "kg", kilogram |-> "kg", kilograms |-> "kg",
     gal |-> "gallon", gallon |-> "gallon", gallons |-> "gallon",
     qt |-> "quart", quart |-> "quart", quarts |-> "quart",
     tin |-> "tin", tins |-> "tin", drum |-> "drum", drums |-> "drum",
     pack |-> "pack", packs |-> "pack", pail |-> "pail", pails |-> "pail",
     bucket |-> "bucket", buckets |-> "bucket"]

size_aliases ==
    [l |-> "ltr", lt |-> "ltr", ltr |-> "ltr", liter |-> "ltr", litre |-> "ltr",
     liters |-> "ltr", litres |-> "ltr",
     ml |-> "ml", milliliter |-> "ml", millilitre |-> "ml",
     milliliters |-> "ml", millilitres |-> "ml",
     g |-> "g", gram |-> "g", grams |-> "g",
     kg |-> "kg", kilogram |-> "kg", kilograms |-> "kg",
     gal |-> "gallon", gallon |-> "gallon", gallons |-> "gallon",
     qt |-> "quart", quart |-> "quart", quarts |-> "quart",
     tin |-> "tin", tins |-> "tin", drum |-> "drum", drums |-> "drum",
     pack |-> "pack", packs |-> "pack", pail |-> "pail", pails |-> "pail",
     bucket |-> "bucket", buckets |-> "bucket"]

(***************************************************************************)
(* chatbot.py: _normalize_size_phrase.                                     *)
(***************************************************************************)
\* re.sub(r"(?<=\d)(?=[A-Za-z])", " ", value)
RECURSIVE SpaceDigitLetter(_)
SpaceDigitLetter(s) ==
    IF Len(s) <= 1 THEN s
    ELSE IF Head(s) \in DIGITS /\ Ch(s, 2) \in LETTERS
         THEN Head(s) \o " " \o SpaceDigitLetter(Tail(s))
         ELSE Head(s) \o SpaceDigitLetter(Tail(s))

\* the characters _SIZE_TOKEN_SPLIT = [^a-z0-9.]+ does not split on
SizeTokenChars == LOWERS \cup DIGITS \cup {"."}

\* _SIZE_TOKEN_SPLIT.split(s) without its empty strings
RECURSIVE SizeTokens(_)
SizeTokens(s) ==
    LET t == IF \E i \in 1..Len(s) : Ch(s, i) \in SizeTokenChars
             THEN SubSeq(s, CHOOSE i \in 1..Len(s) :
                                /\ Ch(s, i) \in SizeTokenChars
                                /\ \A j \in 1..(i - 1) : Ch(s, j) \notin SizeTokenChars,
                         Len(s))
             ELSE ""
        n == IF \E i \in 1..Len(t) : Ch(t, i) \notin SizeTokenChars
             THEN (CHOOSE i \in 1..Len(t) :
                     /\ Ch(t, i) \notin SizeTokenChars
                     /\ \A j \in 1..(i - 1) : Ch(t, j) \in SizeTokenChars) - 1
             ELSE Len(t)
    IN  IF Len(t) = 0 THEN <<>>
        ELSE <<SubSeq(t, 1, n)>> \o SizeTokens(SubSeq(t, n + 1, Len(t)))

\* config.size_aliases.get(token, token)
AliasOf(token) ==
    IF token \in DOMAIN size_aliases THEN size_aliases[token] ELSE token

\* _normalize_size_phrase without the space inserted between digit and letter
_normalize_size_phrase_unspaced(value) ==
    IF Len(value) = 0 THEN ""
    ELSE LET tokens == SizeTokens(Lower(value))
         IN  Join([i \in 1..Len(tokens) |-> AliasOf(tokens[i])], " ")

_normalize_size_phrase(value) ==
    IF Len(value) = 0 THEN ""
    ELSE LET spaced == SpaceDigitLetter(value)
             tokens == SizeTokens(Lower(spaced))
         IN  Join([i \in 1..Len(tokens) |-> AliasOf(tokens[i])], " ")

\* config.size_aliases.get(token, token) for the table of any config
AliasIn(aliases, token) ==
    IF token \in DOMAIN aliases THEN aliases[token] ELSE token

\* _normalize_size_phrase(value, config) for the alias table of any config
_normalize_size_phrase_config(value, aliases) ==
    IF Len(value) = 0 THEN ""
    ELSE LET spaced == SpaceDigitLetter(value)
             tokens == SizeTokens(Lower(spaced))
         IN  Join([i \in 1..Len(tokens) |-> AliasIn(aliases, tokens[i])], " ")

(***************************************************************************)
(* The two catalog documents.  A price document has the nesting            *)
(* product_categories -> subcategories -> products.  Prices are in fils    *)
(* (1/100 AED), so 8000 is the JSON number 80.                             *)
(***************************************************************************)
\* stand-ins for the non-ASCII characters the sources use
U2013 == "~"   \* EN DASH
U2014 == "="   \* EM DASH
U00E2 == "^"   \* LATIN SMALL LETTER A WITH CIRCUMFLEX
U20AC == "$"   \* EURO SIGN
U201C == "|"   \* LEFT DOUBLE QUOTATION MARK

Tier(size, price) == [size |-> size, price |-> price]

PriceProduct(code, name, prices, variants) ==
    [product_code |-> code, product_name |-> name, prices |-> prices, variants |-> variants]

Variant(name, prices) == [variant_name |-> name, prices |-> prices]

PriceDocument(products) ==
    [currency |-> "AED",
     product_categories |-> << [subcategories |-> << [products |-> products] >>] >>]

A119 == PriceProduct("A119", "National Acrylic Primer (W.B.)",
                     <<Tier("18 Ltr (Drum)", 8000), Tier("3.6 Ltr (Gallon)", 1800)>>, <<>>)

A015 == PriceProduct("A015", "National PVA Primer", <<>>,
                     <<Variant("White", <<Tier("18 Ltr (Drum)", 6000)>>),
                       Variant("APS", <<Tier("18 Ltr (Drum)", 6500)>>)>>)

B200 == PriceProduct(" b200 ", "Road Marking Paint", <<Tier("5 Kg", 4500)>>, <<>>)

N001 == PriceProduct("N001", "Thinner", <<>>, <<>>)

PriceDocs ==
    { PriceDocument(<<A119, A015>>),
      PriceDocument(<<B200, A119, N001>>) }

(***************************************************************************)
(* data/prices.py                                                          *)
(***************************************************************************)
\* float(value) for the JSON numbers of the price document
_normalize_price(value) == value

RECURSIVE TranslateDashes(_)
TranslateDashes(s) ==
    IF Len(s) = 0 THEN ""
    ELSE (IF Head(s) \in {U2013, U2014} THEN "-" ELSE Head(s)) \o TranslateDashes(Tail(s))

_normalize_size_key(size) == CollapseWS(Lower(Strip(TranslateDashes(size))))

\* the products of the document, categories and subcategories flattened in order
RECURSIVE Concat(_)
Concat(seqs) == IF Len(seqs) = 0 THEN <<>> ELSE Head(seqs) \o Concat(Tail(seqs))

DocProducts(doc) ==
    Concat([c \in 1..Len(doc.product_categories) |->
              Concat([s \in 1..Len(doc.product_categories[c].subcategories) |->
                        doc.product_categories[c].subcategories[s].products])])

\* position of the entry of a code in the index, 0 when it has none
CodeIndex(price_data, code) ==
    IF \E i \in 1..Len(price_data) : price_data[i].code = code
    THEN CHOOSE i \in 1..Len(price_data) : price_data[i].code = code
    ELSE 0

\* position of a size key in an OrderedDict of prices, 0 when it has none
KeyIndex(prices, key) ==
    IF \E i \in 1..Len(prices) : prices[i].key = key
    THEN CHOOSE i \in 1..Len(prices) : prices[i].key = key
    ELSE 0

\* entry["prices"][size_key] = info: an existing key keeps its position
SetPrice(prices, key, info) ==
    LET i == KeyIndex(prices, key)
        item == [key |-> key, size |-> info.size, price |-> info.price,
                 currency |-> info.currency]
    IN  IF i = 0 THEN Append(prices, item) ELSE [prices EXCEPT ![i] = item]

\* the (variant_name, prices) pairs of a product
PriceSources(product) ==
    IF Len(product.prices) > 0
    THEN << [variant_name |-> None, prices |-> product.prices] >>
    ELSE SelectSeq(product.variants, LAMBDA v : Len(v.prices) > 0)

\* the label a tier is indexed under
CombinedLabel(variant_name, size) ==
    LET variant_label == IF variant_name = None THEN "" ELSE Strip(variant_name)
        size_label == Strip(size)
    IN  IF Len(variant_label) > 0
        THEN variant_label \o " " \o U00E2 \o U20AC \o U201C \o " " \o size_label
        ELSE size_label

RECURSIVE AddTiers(_, _, _, _)
AddTiers(prices, variant_name, tiers, default_currency) ==
    IF Len(tiers) = 0 THEN prices
    ELSE LET price_entry == Head(tiers)
             combined_label == CombinedLabel(variant_name, price_entry.size)
             info == [size |-> combined_label,
                      price |-> _normalize_price(price_entry.price),
                      currency |-> default_currency]
             next == IF Len(price_entry.size) = 0 THEN prices
                     ELSE SetPrice(prices, _normalize_size_key(combined_label), info)
         IN  AddTiers(next, variant_name, Tail(tiers), default_currency)

RECURSIVE AddSources(_, _, _)
AddSources(prices, sources, default_currency) ==
    IF Len(sources) = 0 THEN prices
    ELSE AddSources(AddTiers(prices, Head(sources).variant_name, Head(sources).prices,
                             default_currency),
                    Tail(sources), default_currency)

\* one iteration of the product loop of _load_price_data
AddProduct(price_data, product, default_currency) ==
    LET code == Strip(product.product_code)
        key == Upper(code)
        i == CodeIndex(price_data, key)
        fresh == [code |-> key, product_names |-> <<>>, currency |-> default_currency,
                  prices |-> <<>>]
        data == IF i = 0 THEN Append(price_data, fresh) ELSE price_data
        j == IF i = 0 THEN Len(data) ELSE i
        entry == data[j]
        named == IF /\ Len(product.product_name) > 0
                    /\ \A k \in 1..Len(entry.product_names) :
                          entry.product_names[k] # product.product_name
                 THEN Append(entry.product_names, product.product_name)
                 ELSE entry.product_names
        priced == AddSources(entry.prices, PriceSources(product), default_currency)
    IN  IF Len(code) = 0 THEN price_data
        ELSE [data EXCEPT ![j] = [entry EXCEPT !.product_names = named, !.prices = priced]]

RECURSIVE AddProducts(_, _, _)
AddProducts(price_data, products, default_currency) ==
    IF Len(products) = 0 THEN price_data
    ELSE AddProducts(AddProduct(price_data, Head(products), default_currency),
                     Tail(products), default_currency)

\* _load_price_data(): the cached index, or the index built from the document
_load_price_data ==
    IF _PRICE_DATA.loaded THEN _PRICE_DATA.data
    ELSE AddProducts(<<>>, DocProducts(raw_data), Upper(raw_data.currency))

\* the module cache after a call to _load_price_data()
PriceDataLoaded == [loaded |-> TRUE, data |-> _load_price_data]

\* entry = _load_price_data().get(str(code).strip().upper())
PriceEntry(code) ==
    LET Entry(data, i) ==
            IF i = 0 THEN [found |-> FALSE] ELSE [found |-> TRUE, entry |-> data[i]]
        Lookup(data) == Entry(data, CodeIndex(data, Upper(Strip(code))))
    IN  Lookup(_load_price_data)

list_sizes(code) ==
    LET Sizes(e) ==
            IF ~e.found THEN <<>>
            ELSE [i \in 1..Len(e.entry.prices) |-> e.entry.prices[i].size]
    IN  Sizes(PriceEntry(code))

NoPrice == -1

\* get_price with the size looked up as typed, not under its normalised key
get_price_as_typed(code, size) ==
    LET Price(e, k) == IF k = 0 THEN NoPrice ELSE e.entry.prices[k].price
        SizeInfo(e, size_key) ==
            Price(e, IF e.found THEN KeyIndex(e.entry.prices, size_key) ELSE 0)
    IN  SizeInfo(PriceEntry(code), size)

\* get_price with the size looked up without collapsing its whitespace
get_price_uncollapsed(code, size) ==
    LET Price(e, k) == IF k = 0 THEN NoPrice ELSE e.entry.prices[k].price
        SizeInfo(e, size_key) ==
            Price(e, IF e.found THEN KeyIndex(e.entry.prices, size_key) ELSE 0)
    IN  SizeInfo(PriceEntry(code), Lower(Strip(TranslateDashes(size))))

get_price(code, size) ==
    LET Price(e, k) == IF k = 0 THEN NoPrice ELSE e.entry.prices[k].price
        SizeInfo(e, size_key) ==
            Price(e, IF e.found THEN KeyIndex(e.entry.prices, size_key) ELSE 0)
    IN  SizeInfo(PriceEntry(code), _normalize_size_key(size))

(***************************************************************************)
(* Functions chatbot.py and tools/paint.py import from data/prices.py that *)
(* data/prices.py does not define; modelled from the specification.        *)
(***************************************************************************)
list_product_codes ==
    LET Keys(data) == [i \in 1..Len(data) |-> data[i].code] IN Keys(_load_price_data)

list_available_sizes(code) == list_sizes(code)

get_currency == "AED"

NoProduct == [found |-> FALSE, product_name |-> "", product_code |-> ""]
NoEntry == [found |-> FALSE, size |-> "", price |-> NoPrice]

lookup_price(code, size) ==
    LET Triple(e, k) ==
            IF ~e.found
            THEN [product |-> NoProduct, price_entry |-> NoEntry, currency |-> get_currency]
            ELSE [product |-> [found |-> TRUE,
                               product_name |-> IF Len(e.entry.product_names) > 0
                                                THEN e.entry.product_names[1] ELSE "",
                               product_code |-> e.entry.code],
                  price_entry |-> IF k = 0 THEN NoEntry
                                  ELSE [found |-> TRUE, size |-> e.entry.prices[k].size,
                                        price |-> e.entry.prices[k].price],
                  currency |-> e.entry.currency]
        SizeInfo(e, size_key) ==
            Triple(e, IF e.found THEN KeyIndex(e.entry.prices, size_key) ELSE 0)
    IN  SizeInfo(PriceEntry(code), _normalize_size_key(size))

(***************************************************************************)
(* The product-metadata document: nested lists and mappings of strings.    *)
(***************************************************************************)
Str(s) == [t |-> "str", s |-> s, keys |-> <<>>, items |-> <<>>]
List(items) == [t |-> "list", s |-> "", keys |-> <<>>, items |-> items]
Dict(keys, items) == [t |-> "dict", s |-> "", keys |-> keys, items |-> items]

Product(name, description) ==
    Dict(<<"product_name", "description">>, <<Str(name), Str(description)>>)

ProductDocs ==
    { List(<< List(<< Product("NATIONAL ACRYLIC PRIMER (W.B.)", "An  acrylic emulsion primer."),
                      Product("NATIONAL AQUA ACRYLIC PRIMER", "") >>) >>),
      List(<< List(<< Product("Primer", "Exact.") >>),
              List(<< Product("primer  PLUS", "Partial."), Product("Road Primer", "") >>) >>) }

(***************************************************************************)
(* data/products.py                                                        *)
(***************************************************************************)
_load_raw_products == payload

HasKey(node, key) == \E i \in 1..Len(node.keys) : node.keys[i] = key

\* node.get(key, default) for a string-valued field
Get(node, key, default) ==
    IF HasKey(node, key)
    THEN node.items[CHOOSE i \in 1..Len(node.keys) : node.keys[i] = key].s
    ELSE default

\* the while loop of _flatten_products
RECURSIVE FlattenLoop(_, _)
FlattenLoop(stack, products) ==
    IF Len(stack) = 0 THEN products
    ELSE LET current == stack[Len(stack)]
             popped == SubSeq(stack, 1, Len(stack) - 1)
         IN  IF current.t = "dict"
             THEN FlattenLoop(popped \o current.items,
                              IF HasKey(current, "product_name")
                              THEN Append(products, current) ELSE products)
             ELSE IF current.t = "list"
                  THEN FlattenLoop(popped \o current.items, products)
                  ELSE FlattenLoop(popped, products)

_flatten_products(doc) == FlattenLoop(<<doc>>, <<>>)

(***************************************************************************)
(* app.py: collect_product_records, the recursive collector.               *)
(***************************************************************************)
\* isinstance(node["product_name"], str)
NameIsStr(node) ==
    node.items[CHOOSE i \in 1..Len(node.keys) : node.keys[i] = "product_name"].t = "str"

\* the bucket after collect_product_records(node, bucket) on an empty bucket
RECURSIVE collect_product_records(_)
collect_product_records(node) ==
    LET Children(items) == Concat([i \in 1..Len(items) |-> collect_product_records(items[i])])
    IN  IF node.t = "dict"
        THEN (IF HasKey(node, "product_name") /\ NameIsStr(node) THEN <<node>> ELSE <<>>)
               \o Children(node.items)
        ELSE IF node.t = "list" THEN Children(node.items)
        ELSE <<>>

\* get_all_products(): the lru_cache entry, or the flattened document
get_all_products ==
    IF products_cache.loaded THEN products_cache.data
    ELSE _flatten_products(_load_raw_products)

\* the lru_cache after a call to get_all_products()
ProductsLoaded == [loaded |-> TRUE, data |-> get_all_products]

_normalize_text(value) == Join(Split(Lower(Strip(value))), " ")

\* position of the first TRUE of a sequence of tests, 0 when there is none
FirstTrue(flags) ==
    IF \E i \in 1..Len(flags) : flags[i]
    THEN CHOOSE i \in 1..Len(flags) : flags[i] /\ \A j \in 1..(i - 1) : ~flags[j]
    ELSE 0

NoNode == [t |-> "none", s |-> "", keys |-> <<>>, items |-> <<>>]

\* find_product_by_name with the partial pass run before the exact pass
find_product_by_name_partial_first(name) ==
    LET normalized_query == _normalize_text(name)
        products == get_all_products
        IsExact(product) ==
            _normalize_text(Get(product, "product_name", "")) = normalized_query
        IsPartial(product) ==
            Contains(_normalize_text(Get(product, "product_name", "")), normalized_query)
        exact == FirstTrue([i \in 1..Len(products) |-> IsExact(products[i])])
        partial == FirstTrue([i \in 1..Len(products) |-> IsPartial(products[i])])
    IN  IF Len(name) = 0 THEN NoNode
        ELSE IF partial # 0 THEN products[partial]
        ELSE IF exact # 0 THEN products[exact]
        ELSE NoNode

find_product_by_name(name) ==
    LET normalized_query == _normalize_text(name)
        products == get_all_products
        IsExact(product) ==
            _normalize_text(Get(product, "product_name", "")) = normalized_query
        IsPartial(product) ==
            Contains(_normalize_text(Get(product, "product_name", "")), normalized_query)
        exact == FirstTrue([i \in 1..Len(products) |-> IsExact(products[i])])
        partial == FirstTrue([i \in 1..Len(products) |-> IsPartial(products[i])])
    IN  IF Len(name) = 0 THEN NoNode
        ELSE IF exact # 0 THEN products[exact]
        ELSE IF partial # 0 THEN products[partial]
        ELSE NoNode

list_product_names ==
    LET named == SelectSeq(get_all_products,
                           LAMBDA product : Len(Get(product, "product_name", "")) > 0)
    IN  [i \in 1..Len(named) |-> Get(named[i], "product_name", "")]

\* _stringify(value) for a string
_stringify(value) == Join(Split(value), " ")

\* x or y for two strings
Or(x, y) == IF Len(x) > 0 THEN x ELSE y

summarize_product(product) ==
    LET description == Or(Get(product, "description", ""),
                          Get(product, "product_description", ""))
        uses == Or(Or(Get(product, "uses", ""), Get(product, "usage", "")),
                   Get(product, "usage_data", ""))
        advantages == Or(Get(product, "advantages", ""),
                         Get(product, "advantages_and_intended_use", ""))
        parts == (IF Len(description) > 0 THEN <<_stringify(description)>> ELSE <<>>)
              \o (IF Len(uses) > 0 THEN <<"Uses: " \o _stringify(uses)>> ELSE <<>>)
              \o (IF Len(advantages) > 0
                  THEN <<"Advantages: " \o _stringify(advantages)>> ELSE <<>>)
    IN  IF Len(parts) = 0 THEN "No summary is available for this product."
        ELSE Join(parts, "\n")

(***************************************************************************)
(* chatbot_config.py: triggers, filler words and thresholds.               *)
(***************************************************************************)
about_triggers ==
    <<"tell me about", "information about", "information on", "what is", "what's",
      "describe", "details about">>

price_triggers ==
    <<"how much is", "how much does", "price for", "price of", "price on",
      "what is the price of", "what's the price of", "cost of">>

filler_words == {"the", "a", "an", "about", "of"}

product_similarity_threshold == 75
code_similarity_threshold == 80
size_similarity_threshold == 70
suggestion_limit == 3

(***************************************************************************)
(* chatbot.py: regular expressions and parsing helpers.                    *)
(***************************************************************************)
CodeChars == LETTERS \cup DIGITS \cup {"-"}     \* [A-Za-z0-9-]
SentenceEnd == {".", "!", "?"}                   \* [\.!?]
TrailingPunct == {"\"", "'", ".", ",", "!", "?", ";", ":"}

\* the last position of the longest run of characters of cs that starts at i
RunEnd(s, i, cs) ==
    IF \E j \in i..Len(s) : Ch(s, j) \notin cs
    THEN (CHOOSE j \in i..Len(s) :
            /\ Ch(s, j) \notin cs
            /\ \A k \in i..(j - 1) : Ch(s, k) \in cs) - 1
    ELSE Len(s)

\* p occurs in s at position i, ignoring case (p is lower case)
OccursAtCI(s, p, i) ==
    /\ i >= 1
    /\ i + Len(p) - 1 <= Len(s)
    /\ Lower(SubSeq(s, i, i + Len(p) - 1)) = p

_strip_trailing_punctuation(value) == StripChars(Strip(value), TrailingPunct)

RECURSIVE DropFillers(_, _)
DropFillers(tokens, filler) ==
    IF Len(tokens) > 0 /\ Lower(Head(tokens)) \in filler
    THEN DropFillers(Tail(tokens), filler)
    ELSE tokens

_strip_leading_words(text, words) == Join(DropFillers(Split(text), words), " ")

_normalize_simple(value) == Join(Split(Lower(value)), " ")

_normalize_code_query(value) ==
    Upper(SelectSeq(value, LAMBDA c : c \in LETTERS \cup DIGITS))

\* \s+(?:kw1|kw2|...)\s+ matched right after position q: the end of the
\* keyword and the end of the whitespace that follows it
KeywordTail(s, q, kws) ==
    LET Ends(w1, hits, e, w2) ==
            IF w1 >= q + 1 /\ hits # {} /\ w2 >= e + 1
            THEN [ok |-> TRUE, e |-> e, w2 |-> w2]
            ELSE [ok |-> FALSE, e |-> 0, w2 |-> 0]
        Trailing(w1, hits, e) == Ends(w1, hits, e, RunEnd(s, e + 1, WS))
        Keyword(w1, hits) == Trailing(w1, hits, w1 + Len(CHOOSE kw \in hits : TRUE))
        Leading(w1) == Keyword(w1, {kw \in kws : OccursAtCI(s, kw, w1 + 1)})
    IN  Leading(RunEnd(s, q + 1, WS))

NoMatch == [ok |-> FALSE, code |-> "", size |-> ""]

\* (?P<code>[A-Za-z0-9-]+)\s+(?:in|for|at)\s+(?P<size>.+) matched at position p
CodeThenSizeAt(s, p) ==
    LET Groups(q, t) ==
            IF q < p \/ ~t.ok THEN NoMatch
            ELSE IF t.w2 < Len(s)
                 THEN [ok |-> TRUE, code |-> SubSeq(s, p, q),
                       size |-> SubSeq(s, t.w2 + 1, Len(s))]
                 ELSE IF t.w2 - t.e >= 2
                      THEN [ok |-> TRUE, code |-> SubSeq(s, p, q), size |-> Ch(s, Len(s))]
                      ELSE NoMatch
        Code(q) == Groups(q, KeywordTail(s, q, {"in", "for", "at"}))
    IN  Code(RunEnd(s, p, CodeChars))

\* _PRICE_PATTERNS[0].search(text)
PricePattern0(s) ==
    LET Leftmost(ps) ==
            IF ps = {} THEN NoMatch
            ELSE CodeThenSizeAt(s, CHOOSE p \in ps : \A r \in ps : p <= r)
    IN  Leftmost({p \in 1..Len(s) : CodeThenSizeAt(s, p).ok})

\* (?P<size>.+?)\s+(?:for|in|at)\s+(?P<code>[A-Za-z0-9-]+) with the size
\* group ending at position k
SizeThenCodeAt(s, k) ==
    LET Groups(t, q) ==
            IF ~t.ok \/ q < t.w2 + 1 THEN NoMatch
            ELSE [ok |-> TRUE, code |-> SubSeq(s, t.w2 + 1, q), size |-> SubSeq(s, 1, k)]
        Code(t) == Groups(t, RunEnd(s, t.w2 + 1, CodeChars))
    IN  Code(KeywordTail(s, k, {"for", "in", "at"}))

\* _PRICE_PATTERNS[1].search(text)
PricePattern1(s) ==
    LET Shortest(ks) ==
            IF ks = {} THEN NoMatch
            ELSE SizeThenCodeAt(s, CHOOSE k \in ks : \A r \in ks : k <= r)
    IN  Shortest({k \in 1..Len(s) : SizeThenCodeAt(s, k).ok})

\* code\s+(?P<code>[A-Za-z0-9-]+)\s+(?:in|for|at)\s+(?P<size>.+) matched at p
CodeWordAt(s, p) ==
    LET Rest(w) ==
            IF OccursAtCI(s, "code", p) /\ w >= p + 4 THEN CodeThenSizeAt(s, w + 1)
            ELSE NoMatch
    IN  Rest(RunEnd(s, p + 4, WS))

\* _PRICE_PATTERNS[2].search(text)
PricePattern2(s) ==
    LET Leftmost(ps) ==
            IF ps = {} THEN NoMatch
            ELSE CodeWordAt(s, CHOOSE p \in ps : \A r \in ps : p <= r)
    IN  Leftmost({p \in 1..Len(s) : CodeWordAt(s, p).ok})

_PRICE_PATTERNS(s) == <<PricePattern0(s), PricePattern1(s), PricePattern2(s)>>

\* the first pattern that matches with a non-empty code, else the first token
_extract_code_and_size(text) ==
    LET Stripped(m) == [ok |-> m.ok, code |-> _strip_trailing_punctuation(m.code),
                        size |-> _strip_trailing_punctuation(m.size)]
        FirstToken(tokens) ==
            IF Len(tokens) = 0 THEN NoMatch
            ELSE [ok |-> TRUE, code |-> _strip_trailing_punctuation(tokens[1]),
                  size |-> _strip_trailing_punctuation(Join(Tail(tokens), " "))]
        FirstHit(matches, hits) ==
            IF hits # {} THEN Stripped(matches[CHOOSE i \in hits : \A j \in hits : i <= j])
            ELSE FirstToken(Split(text))
        Search(matches) ==
            FirstHit(matches, {i \in 1..Len(matches) :
                                 matches[i].ok /\ Len(Stripped(matches[i]).code) > 0})
    IN  Search(_PRICE_PATTERNS(text))

\* message[index + len(trigger):], stripped of punctuation and leading fillers
TriggerCandidate(message, trigger) ==
    LET After(index) == SubSeq(message, index + Len(trigger), Len(message))
        candidate == After(Find(Lower(message), trigger))
    IN  _strip_leading_words(_strip_trailing_punctuation(candidate), filler_words)

\* the trigger loop of _parse_price_query from trigger i on, then its fallback
RECURSIVE PriceTriggerLoop(_, _)
PriceTriggerLoop(message, i) ==
    LET Fallback(lower, scanned) ==
            IF (Contains(lower, "price") \/ Contains(lower, "cost"))
               /\ scanned.ok /\ Len(scanned.code) > 0
            THEN scanned ELSE NoMatch
        Trigger(lower, parsed) ==
            IF Find(lower, price_triggers[i]) # 0 /\ parsed.ok THEN parsed
            ELSE PriceTriggerLoop(message, i + 1)
    IN  IF i > Len(price_triggers)
        THEN Fallback(Lower(message), _extract_code_and_size(message))
        ELSE Trigger(Lower(message),
                     _extract_code_and_size(TriggerCandidate(message, price_triggers[i])))

_parse_price_query(message) == PriceTriggerLoop(message, 1)

RECURSIVE AboutTriggerLoop(_, _)
AboutTriggerLoop(message, i) ==
    LET Trigger(candidate) ==
            IF Find(Lower(message), about_triggers[i]) # 0 /\ Len(candidate) > 0
            THEN candidate
            ELSE AboutTriggerLoop(message, i + 1)
    IN  IF i > Len(about_triggers) THEN None
        ELSE Trigger(TriggerCandidate(message, about_triggers[i]))

_parse_about_query(message) == AboutTriggerLoop(message, 1)

\* the shortest (.+?) that starts at position i and is followed by [\.!?]*\s*$
LazyGroup(s, i) ==
    LET Closes(n) == Len(LStripChars(LStripChars(SubSeq(s, n + 1, Len(s)), SentenceEnd),
                                     WS)) = 0
    IN  SubSeq(s, i, CHOOSE n \in i..Len(s) : Closes(n) /\ \A m \in i..(n - 1) : ~Closes(m))

\* \s+(.+?)[\.!?]*\s*$ matched right after position e: the group, None if none
TailGroup(s, e) ==
    LET Group(w) ==
            IF w < e + 1 THEN None
            ELSE IF w < Len(s) THEN LazyGroup(s, w + 1)
            ELSE IF w - e >= 2 THEN Ch(s, Len(s))
            ELSE None
    IN  Group(RunEnd(s, e + 1, WS))

\* _PRICE_RE.match(message)
_PRICE_RE(message) ==
    LET Groups(w, q, t, size) ==
            IF q >= w + 1 /\ t.ok /\ size # None
            THEN [ok |-> TRUE, code |-> SubSeq(message, w + 1, q), size |-> size]
            ELSE NoMatch
        Size(w, q, t) == Groups(w, q, t, TailGroup(message, t.e))
        Joiner(w, q) == Size(w, q, KeywordTail(message, q, {"in", "for"}))
        Code(e, w) ==
            IF w >= e + 1 THEN Joiner(w, RunEnd(message, w + 1, CodeChars)) ELSE NoMatch
        Lead(p, e) ==
            IF OccursAtCI(message, "how much is", p)
            THEN Code(e, RunEnd(message, e + 1, WS)) ELSE NoMatch
        Start(p) == Lead(p, p + Len("how much is") - 1)
    IN  Start(RunEnd(message, 1, WS) + 1)

\* _ABOUT_RE.match(message): group 1, None when there is no match
_ABOUT_RE(message) ==
    LET Start(p) ==
            IF OccursAtCI(message, "tell me about", p)
            THEN TailGroup(message, p + Len("tell me about") - 1) ELSE None
    IN  Start(RunEnd(message, 1, WS) + 1)

(***************************************************************************)
(* The similarity scorer (rapidfuzz, or the difflib stand-in) is outside   *)
(* the repository: a call may return any score in 0..100, and 100 for two  *)
(* equal strings.  The scores explored sit on both sides of the caller's   *)
(* threshold.                                                              *)
(***************************************************************************)
ScoresAround(threshold) == {threshold - 1, threshold, 100}

\* the possible results of scoring a query against each choice
ScoreVectors(query, choices, threshold) ==
    LET same == {i \in 1..Len(choices) : choices[i] = query}
    IN  {v \in [1..Len(choices) -> ScoresAround(threshold)] : \A i \in same : v[i] = 100}

NoScores == [name |-> <<>>, code |-> <<>>, size |-> <<>>]

\* results.sort(key=score, reverse=True): stable, descending
RECURSIVE SortByScore(_)
SortByScore(items) ==
    IF Len(items) = 0 THEN <<>>
    ELSE LET i == CHOOSE i \in 1..Len(items) :
                    /\ \A j \in 1..Len(items) : items[j].score <= items[i].score
                    /\ \A j \in 1..(i - 1) : items[j].score < items[i].score
         IN  <<items[i]>> \o
             SortByScore(SubSeq(items, 1, i - 1) \o SubSeq(items, i + 1, Len(items)))

\* process.extract(...) with score_cutoff ignored
extract_without_cutoff(choices, v, score_cutoff, limit) ==
    LET scored == [i \in 1..Len(choices) |-> [choice |-> choices[i], score |-> v[i]]]
        results == SortByScore(scored)
    IN  SubSeq(results, 1, IF Len(results) < limit THEN Len(results) ELSE limit)

\* process.extract(...) with limit ignored
extract_unlimited(choices, v, score_cutoff, limit) ==
    LET scored == [i \in 1..Len(choices) |-> [choice |-> choices[i], score |-> v[i]]]
    IN  SortByScore(SelectSeq(scored, LAMBDA r : r.score >= score_cutoff))

\* process.extract(...) once the scorer has returned v[i] for choices[i]
extract(choices, v, score_cutoff, limit) ==
    LET scored == [i \in 1..Len(choices) |-> [choice |-> choices[i], score |-> v[i]]]
        results == SortByScore(SelectSeq(scored, LAMBDA r : r.score >= score_cutoff))
    IN  SubSeq(results, 1, IF Len(results) < limit THEN Len(results) ELSE limit)

Choices(results) == [i \in 1..Len(results) |-> results[i].choice]

\* _suggest_product_names(query): every (suggestions, scores) the scorer allows
_suggest_product_names(query) ==
    LET names == list_product_names
        processed == [i \in 1..Len(names) |-> _normalize_simple(names[i])]
    IN  IF Len(query) = 0 THEN {[items |-> <<>>, scores |-> <<>>]}
        ELSE {[items |-> Choices(extract(names, v, product_similarity_threshold,
                                         suggestion_limit)),
               scores |-> v] :
              v \in ScoreVectors(_normalize_simple(query), processed,
                                 product_similarity_threshold)}

\* _suggest_product_codes(query): every (suggestions, scores) the scorer allows
_suggest_product_codes(query) ==
    LET codes == list_product_codes
        normalized_query == _normalize_code_query(query)
        processed == [i \in 1..Len(codes) |-> _normalize_code_query(codes[i])]
    IN  IF Len(query) = 0 \/ Len(normalized_query) = 0
        THEN {[items |-> <<>>, scores |-> <<>>]}
        ELSE {[items |-> Choices(extract(codes, v, code_similarity_threshold,
                                         suggestion_limit)),
               scores |-> v] :
              v \in ScoreVectors(normalized_query, processed, code_similarity_threshold)}

\* the loop of _match_size_alias replacing the best match on an equal score
RECURSIVE BestSize_last_on_ties(_, _, _, _, _)
BestSize_last_on_ties(available_sizes, v, i, best_match, best_score) ==
    IF i > Len(available_sizes) THEN best_match
    ELSE IF v[i] >= best_score /\ v[i] >= size_similarity_threshold
         THEN BestSize_last_on_ties(available_sizes, v, i + 1, available_sizes[i], v[i])
         ELSE BestSize_last_on_ties(available_sizes, v, i + 1, best_match, best_score)

\* the loop of _match_size_alias over available_sizes[i..], scores given by v
RECURSIVE BestSize(_, _, _, _, _)
BestSize(available_sizes, v, i, best_match, best_score) ==
    IF i > Len(available_sizes) THEN best_match
    ELSE IF v[i] > best_score /\ v[i] >= size_similarity_threshold
         THEN BestSize(available_sizes, v, i + 1, available_sizes[i], v[i])
         ELSE BestSize(available_sizes, v, i + 1, best_match, best_score)

\* _match_size_alias returning the best-scoring label whatever its score
_match_size_alias_any_score(size, available_sizes) ==
    LET normalized_query == _normalize_size_phrase(size)
        candidates == [i \in 1..Len(available_sizes) |->
                         _normalize_size_phrase(available_sizes[i])]
        Best(v) == CHOOSE i \in 1..Len(v) :
                     /\ \A j \in 1..Len(v) : v[j] <= v[i]
                     /\ \A j \in 1..(i - 1) : v[j] < v[i]
    IN  IF Len(size) = 0 \/ Len(available_sizes) = 0 \/ Len(normalized_query) = 0
        THEN {[match |-> None, scores |-> <<>>]}
        ELSE {[match |-> available_sizes[Best(v)], scores |-> v] :
              v \in ScoreVectors(normalized_query, candidates, size_similarity_threshold)}

\* _match_size_alias(size, available_sizes): every (match, scores) the scorer allows
_match_size_alias(size, available_sizes) ==
    LET normalized_query == _normalize_size_phrase(size)
        candidates == [i \in 1..Len(available_sizes) |->
                         _normalize_size_phrase(available_sizes[i])]
    IN  IF Len(size) = 0 \/ Len(available_sizes) = 0 \/ Len(normalized_query) = 0
        THEN {[match |-> None, scores |-> <<>>]}
        ELSE {[match |-> BestSize(available_sizes, v, 1, None, 0), scores |-> v] :
              v \in ScoreVectors(normalized_query, candidates, size_similarity_threshold)}

(***************************************************************************)
(* chatbot.py: the replies.  A reply is the f-string template that         *)
(* produced it (kind) and the values substituted into it.                  *)
(***************************************************************************)
BaseReply ==
    [kind |-> "", product_name |-> "", product_code |-> "", size |-> "",
     price |-> NoPrice, currency |-> "", requested |-> "", closest |-> "",
     sizes |-> <<>>, suggestions |-> <<>>, clarification |-> "", summary |-> ""]

Outcome(reply, sc, loads) == [reply |-> reply, scores |-> sc, loads |-> loads]

\* the price reply quoting the size as the user typed it
PriceReply_echoing_request(product, price_entry, currency, original_size, matched_size) ==
    IF price_entry.price = NoPrice
    THEN [BaseReply EXCEPT !.kind = "price_not_listed",
                           !.product_name = product.product_name,
                           !.product_code = product.product_code,
                           !.size = Strip(original_size)]
    ELSE [BaseReply EXCEPT !.kind = "price",
                           !.product_name = product.product_name,
                           !.product_code = product.product_code,
                           !.price = price_entry.price,
                           !.currency = Strip(currency),
                           !.size = Strip(original_size)]

\* the price reply without the closest-size clarification
PriceReply_silent(product, price_entry, currency, original_size, matched_size) ==
    LET fallback == IF matched_size # None /\ Len(matched_size) > 0
                    THEN matched_size ELSE Strip(original_size)
        size_label == Or(IF price_entry.found THEN price_entry.size ELSE fallback,
                         Strip(original_size))
    IN  IF price_entry.price = NoPrice
        THEN [BaseReply EXCEPT !.kind = "price_not_listed",
                               !.product_name = product.product_name,
                               !.product_code = product.product_code,
                               !.size = size_label]
        ELSE [BaseReply EXCEPT !.kind = "price",
                               !.product_name = product.product_name,
                               !.product_code = product.product_code,
                               !.price = price_entry.price,
                               !.currency = Strip(currency),
                               !.size = size_label]

\* lines 312-330 of _handle_price: a price entry was resolved
PriceReply(product, price_entry, currency, original_size, matched_size) ==
    LET fallback == IF matched_size # None /\ Len(matched_size) > 0
                    THEN matched_size ELSE Strip(original_size)
        size_label == Or(IF price_entry.found THEN price_entry.size ELSE fallback,
                         Strip(original_size))
        differs == /\ Len(Strip(original_size)) > 0
                   /\ _normalize_size_phrase(original_size) # _normalize_size_phrase(size_label)
    IN  IF price_entry.price = NoPrice
        THEN [BaseReply EXCEPT !.kind = "price_not_listed",
                               !.product_name = product.product_name,
                               !.product_code = product.product_code,
                               !.size = size_label]
        ELSE [BaseReply EXCEPT !.kind = "price",
                               !.product_name = product.product_name,
                               !.product_code = product.product_code,
                               !.price = price_entry.price,
                               !.currency = Strip(currency),
                               !.size = size_label,
                               !.clarification = IF differs THEN Strip(original_size) ELSE ""]

\* lines 295-310 of _handle_price: no price entry was resolved
SizeNotFoundReply(product, original_size, matched_size) ==
    [BaseReply EXCEPT !.kind = "size_not_found",
                      !.requested = Strip(original_size),
                      !.product_name = product.product_name,
                      !.product_code = product.product_code,
                      !.closest = IF matched_size # None /\ Len(matched_size) > 0
                                  THEN matched_size ELSE "",
                      !.sizes = list_available_sizes(product.product_code)]

\* lines 288-330 of _handle_price for one answer of _match_size_alias
AfterSizeMatch(product, original_size, m) ==
    LET matched == m.match # None /\ Len(m.match) > 0
        sc == [NoScores EXCEPT !.size = m.scores]
        Second(again) ==
            IF matched /\ again.price_entry.found
            THEN Outcome(PriceReply(again.product, again.price_entry, again.currency,
                                    original_size, m.match), sc, {"prices"})
            ELSE Outcome(SizeNotFoundReply(IF matched THEN again.product ELSE product,
                                           original_size, m.match), sc, {"prices"})
    IN  Second(lookup_price(product.product_code, m.match))

_handle_price(product_code, size) ==
    LET original_size == size
        Known(product, price_entry, currency, available_sizes) ==
            IF Len(Strip(original_size)) = 0
            THEN {Outcome([BaseReply EXCEPT
                             !.kind = IF Len(available_sizes) > 0
                                      THEN "sizes_available" ELSE "no_size_details",
                             !.product_name = product.product_name,
                             !.product_code = product.product_code,
                             !.sizes = available_sizes],
                          NoScores, {"prices"})}
            ELSE IF price_entry.found
            THEN {Outcome(PriceReply(product, price_entry, currency, original_size, None),
                          NoScores, {"prices"})}
            ELSE {AfterSizeMatch(product, original_size, m) :
                  m \in _match_size_alias(original_size, available_sizes)}
        Looked(product, price_entry, currency) ==
            IF ~product.found
            THEN {Outcome([BaseReply EXCEPT !.kind = "code_not_found",
                                            !.requested = Strip(product_code),
                                            !.suggestions = s.items],
                          [NoScores EXCEPT !.code = s.scores], {"prices"}) :
                  s \in _suggest_product_codes(product_code)}
            ELSE Known(product, price_entry, currency,
                       list_available_sizes(product.product_code))
        Unpack(found) == Looked(found.product, found.price_entry, found.currency)
    IN  Unpack(lookup_price(product_code, size))

\* lines 241-262 of _handle_about for one answer of _suggest_product_names
AfterNameSuggestions(product_name, s) ==
    LET suggestions == s.items
        best_name == suggestions[1]
        IsTarget(candidate) ==
            _normalize_simple(Get(candidate, "product_name", "")) = _normalize_simple(best_name)
        Candidate(products, scan) == IF scan # 0 THEN products[scan] ELSE NoNode
        Scan(products) ==
            Candidate(products, FirstTrue([i \in 1..Len(products) |-> IsTarget(products[i])]))
        Best(by_name) == IF by_name.t # "none" THEN by_name ELSE Scan(get_all_products)
        Closest(best_product) ==
            IF best_product.t # "none"
            THEN [BaseReply EXCEPT !.kind = "closest_match",
                                   !.requested = Strip(product_name),
                                   !.product_name =
                                       Strip(Get(best_product, "product_name", best_name)),
                                   !.summary = summarize_product(best_product)]
            ELSE [BaseReply EXCEPT !.kind = "did_you_mean",
                                   !.requested = Strip(product_name),
                                   !.suggestions = suggestions]
        reply ==
            IF Len(suggestions) = 0
            THEN [BaseReply EXCEPT !.kind = "name_not_found",
                                   !.requested = Strip(product_name)]
            ELSE Closest(Best(find_product_by_name(best_name)))
    IN  Outcome(reply, [NoScores EXCEPT !.name = s.scores], {"products"})

_handle_about(product_name) ==
    LET Found(product) ==
            IF product.t # "none"
            THEN {Outcome([BaseReply EXCEPT
                             !.kind = "product_summary",
                             !.product_name =
                                 Strip(Get(product, "product_name", product_name)),
                             !.summary = summarize_product(product)],
                          NoScores, {"products"})}
            ELSE {AfterNameSuggestions(product_name, s) :
                  s \in _suggest_product_names(product_name)}
    IN  Found(find_product_by_name(product_name))

_handle_unknown(message) ==
    UNION {
        IF Len(n.items) > 0
        THEN {Outcome([BaseReply EXCEPT !.kind = "interested_in",
                                        !.suggestions = <<n.items[1]>>],
                      [NoScores EXCEPT !.name = n.scores], {"products"})}
        ELSE {Outcome(IF Len(c.items) > 0
                      THEN [BaseReply EXCEPT !.kind = "closest_code",
                                             !.suggestions = <<c.items[1]>>]
                      ELSE [BaseReply EXCEPT !.kind = "help"],
                      [NoScores EXCEPT !.name = n.scores, !.code = c.scores],
                      {"products", "prices"}) :
              c \in _suggest_product_codes(message)} :
        n \in _suggest_product_names(message)}

\* lines 362-381 of respond_to: the dispatch of a non-empty, stripped message
Dispatch(message) ==
    LET Price(match) == _handle_price(match.code, match.size)
        Route(price_match, parsed_price, about_match, parsed_about) ==
            IF price_match.ok \/ parsed_price.ok
            THEN Price(IF price_match.ok THEN price_match ELSE parsed_price)
            ELSE IF about_match # None \/ parsed_about # None
            THEN _handle_about(IF about_match # None THEN about_match ELSE parsed_about)
            ELSE _handle_unknown(message)
    IN  Route(_PRICE_RE(message), _parse_price_query(message),
              _ABOUT_RE(message), _parse_about_query(message))

\* respond_to without the early return for an empty message
respond_to_unguarded(raw_message) == Dispatch(Strip(raw_message))

\* respond_to(message): every (reply, scores, indexes consulted) it can produce
respond_to(raw_message) ==
    LET message == Strip(raw_message)
    IN  IF Len(message) = 0
        THEN {Outcome([BaseReply EXCEPT !.kind = "empty_prompt"], NoScores, {})}
        ELSE Dispatch(message)

(***************************************************************************)
(* tools/paint.py: price_lookup_tool.                                      *)
(***************************************************************************)
BasePayload ==
    [tool |-> "price_lookup", requested_code |-> "", requested_size |-> "",
     found |-> FALSE, has_currency |-> FALSE, currency |-> "",
     has_missing_fields |-> FALSE, missing_fields |-> <<>>,
     has_product |-> FALSE, product_name |-> "", product_code |-> "",
     has_price |-> FALSE, price |-> NoPrice, size |-> "",
     has_available_sizes |-> FALSE, available_sizes |-> <<>>]

\* price_lookup_tool returning as soon as any field is missing
price_lookup_tool_early_return(code, size) ==
    LET cleaned_code == Strip(code)
        cleaned_size == Strip(size)
        missing_fields == (IF Len(cleaned_code) = 0 THEN <<"code">> ELSE <<>>)
                       \o (IF Len(cleaned_size) = 0 THEN <<"size">> ELSE <<>>)
        base == [BasePayload EXCEPT !.requested_code = cleaned_code,
                                    !.requested_size = cleaned_size]
        Payload(looked, product, price_entry) ==
            IF price_entry.found
            THEN [looked EXCEPT !.found = TRUE, !.has_price = TRUE,
                                !.price = price_entry.price, !.size = price_entry.size]
            ELSE IF product.found
            THEN [looked EXCEPT
                    !.has_available_sizes = TRUE,
                    !.available_sizes =
                        list_available_sizes(Or(product.product_code, cleaned_code))]
            ELSE looked
        Looked(product, price_entry, currency) ==
            Payload([base EXCEPT !.has_currency = TRUE, !.currency = currency,
                                 !.has_product = product.found,
                                 !.product_name = product.product_name,
                                 !.product_code = product.product_code],
                    product, price_entry)
        Unpack(found) == Looked(found.product, found.price_entry, found.currency)
    IN  IF Len(missing_fields) > 0
        THEN [base EXCEPT !.has_currency = TRUE, !.currency = get_currency,
                          !.has_missing_fields = TRUE, !.missing_fields = missing_fields]
        ELSE Unpack(lookup_price(cleaned_code, cleaned_size))

\* price_lookup_tool taking the code as typed, without code.strip()
price_lookup_tool_unstripped(code, size) ==
    LET cleaned_code == code
        cleaned_size == Strip(size)
        missing_fields == (IF Len(cleaned_code) = 0 THEN <<"code">> ELSE <<>>)
                       \o (IF Len(cleaned_size) = 0 THEN <<"size">> ELSE <<>>)
        base == [BasePayload EXCEPT !.requested_code = cleaned_code,
                                    !.requested_size = cleaned_size]
        Payload(looked, product, price_entry) ==
            IF price_entry.found
            THEN [looked EXCEPT !.found = TRUE, !.has_price = TRUE,
                                !.price = price_entry.price, !.size = price_entry.size]
            ELSE IF product.found
            THEN [looked EXCEPT
                    !.has_available_sizes = TRUE,
                    !.available_sizes =
                        list_available_sizes(Or(product.product_code, cleaned_code))]
            ELSE looked
        Looked(product, price_entry, currency) ==
            Payload([base EXCEPT !.has_currency = TRUE, !.currency = currency,
                                 !.has_missing_fields = Len(missing_fields) > 0,
                                 !.missing_fields = missing_fields,
                                 !.has_product = product.found,
                                 !.product_name = product.product_name,
                                 !.product_code = product.product_code],
                    product, price_entry)
        Unpack(found) == Looked(found.product, found.price_entry, found.currency)
    IN  IF Len(cleaned_code) = 0
        THEN [base EXCEPT !.has_currency = TRUE, !.currency = get_currency,
                          !.has_missing_fields = TRUE, !.missing_fields = missing_fields]
        ELSE Unpack(lookup_price(cleaned_code, cleaned_size))

price_lookup_tool(code, size) ==
    LET cleaned_code == Strip(code)
        cleaned_size == Strip(size)
        missing_fields == (IF Len(cleaned_code) = 0 THEN <<"code">> ELSE <<>>)
                       \o (IF Len(cleaned_size) = 0 THEN <<"size">> ELSE <<>>)
        base == [BasePayload EXCEPT !.requested_code = cleaned_code,
                                    !.requested_size = cleaned_size]
        Payload(looked, product, price_entry) ==
            IF price_entry.found
            THEN [looked EXCEPT !.found = TRUE, !.has_price = TRUE,
                                !.price = price_entry.price, !.size = price_entry.size]
            ELSE IF product.found
            THEN [looked EXCEPT
                    !.has_available_sizes = TRUE,
                    !.available_sizes =
                        list_available_sizes(Or(product.product_code, cleaned_code))]
            ELSE looked
        Looked(product, price_entry, currency) ==
            Payload([base EXCEPT !.has_currency = TRUE, !.currency = currency,
                                 !.has_missing_fields = Len(missing_fields) > 0,
                                 !.missing_fields = missing_fields,
                                 !.has_product = product.found,
                                 !.product_name = product.product_name,
                                 !.product_code = product.product_code],
                    product, price_entry)
        Unpack(found) == Looked(found.product, found.price_entry, found.currency)
    IN  IF Len(cleaned_code) = 0
        THEN [base EXCEPT !.has_currency = TRUE, !.currency = get_currency,
                          !.has_missing_fields = TRUE, !.missing_fields = missing_fields]
        ELSE Unpack(lookup_price(cleaned_code, cleaned_size))

(***************************************************************************)
(* The calls explored.                                                     *)
(***************************************************************************)
PriceLeads == {"How much is", "how much does", "Price of", "How much is the price of"}
Codes == {"A119", "a119", "ZZZZ", "B200"}
Joiners == {"in", "for"}
SizePhrases == {"18 Ltr (Drum)", "18  LTR (drum)", "18ltr drum", "1 Ltr"}
Ends == {"", "?", " ?!"}
AboutLeads == {"Tell me about", "What's", "Describe"}
Topics == {"Primer", "primer plus", "National Acrylic Primer (W.B.)",
           "the weather like today", "the price of A119", "unknown product",
           "Low Cost Primer"}
FreeWords == {"price", "A119", "in", "18", "Primer"}
Blanks == {"", " ", " \t "}

PriceQuestions ==
    {l \o " " \o c \o " " \o j \o " " \o z \o e :
       l \in PriceLeads, c \in Codes, j \in Joiners, z \in SizePhrases, e \in Ends}

SizelessQuestions ==
    {l \o " " \o c \o e : l \in PriceLeads, c \in Codes \cup {"N001"}, e \in Ends}
      \cup {"How much does " \o c \o " cost?" : c \in Codes}

AboutQuestions == {l \o " " \o t \o e : l \in AboutLeads, t \in Topics, e \in Ends}

FreeText == {Join(ws, " ") \o e : ws \in SeqsUpTo(FreeWords, MaxWords), e \in {"", "?"}}

ChatMessages ==
    Blanks \cup PriceQuestions \cup SizelessQuestions \cup AboutQuestions \cup FreeText

ToolCodes == {"", "  ", "A119", " a119 ", "ZZZZ", "N001"}
ToolSizes == {"", " ", "18 Ltr (Drum)", " 18  ltr (DRUM) ", "1 Ltr"}

NotLoaded == [loaded |-> FALSE, data |-> <<>>]

(***************************************************************************)
(* Specification of the chatbot and the price tool: one call is in flight  *)
(* against freshly imported modules; other callers may already have        *)
(* loaded either index.                                                    *)
(***************************************************************************)
InitChat ==
    /\ raw_data \in PriceDocs
    /\ payload \in ProductDocs
    /\ _PRICE_DATA = NotLoaded
    /\ products_cache = NotLoaded
    /\ pc = "called"
    /\ \/ op = "respond_to" /\ arg \in {[message |-> m] : m \in ChatMessages}
       \/ op = "price_lookup_tool"
            /\ arg \in {[code |-> c, size |-> z] : c \in ToolCodes, z \in ToolSizes}
    /\ result = None
    /\ scores = NoScores

\* another caller runs _load_price_data() first
LoadPriceData ==
    /\ pc = "called"
    /\ ~_PRICE_DATA.loaded
    /\ _PRICE_DATA' = PriceDataLoaded
    /\ UNCHANGED <<raw_data, payload, products_cache, op, arg, pc, result, scores>>

\* another caller runs get_all_products() first
GetAllProducts ==
    /\ pc = "called"
    /\ ~products_cache.loaded
    /\ products_cache' = ProductsLoaded
    /\ UNCHANGED <<raw_data, payload, _PRICE_DATA, op, arg, pc, result, scores>>

RespondTo ==
    /\ pc = "called"
    /\ op = "respond_to"
    /\ \E out \in respond_to(arg.message) :
         /\ result' = out.reply
         /\ scores' = out.scores
         /\ _PRICE_DATA' = IF "prices" \in out.loads THEN PriceDataLoaded ELSE _PRICE_DATA
         /\ products_cache' = IF "products" \in out.loads THEN ProductsLoaded
                              ELSE products_cache
    /\ pc' = "returned"
    /\ UNCHANGED <<raw_data, payload, op, arg>>

PriceLookupTool ==
    /\ pc = "called"
    /\ op = "price_lookup_tool"
    /\ result' = price_lookup_tool(arg.code, arg.size)
    /\ _PRICE_DATA' = IF Len(Strip(arg.code)) = 0 THEN _PRICE_DATA ELSE PriceDataLoaded
    /\ pc' = "returned"
    /\ UNCHANGED <<raw_data, payload, products_cache, op, arg, scores>>

NextChat == LoadPriceData \/ GetAllProducts \/ RespondTo \/ PriceLookupTool

SpecChat == InitChat /\ [][NextChat]_vars

(***************************************************************************)
(* Specification of the pure text functions: the input is drawn in Init    *)
(* and the action applies the function to it.                              *)
(***************************************************************************)
NormAlphabet == {"A", "b", " ", "%", "."}

NormInputs == StringsUpTo(NormAlphabet, MaxLen)

InitNorm ==
    /\ raw_data = None
    /\ payload = None
    /\ _PRICE_DATA = NotLoaded
    /\ products_cache = NotLoaded
    /\ pc = "called"
    /\ op = "normalize_name"
    /\ arg \in NormInputs
    /\ result = None
    /\ scores = NoScores

NormalizeName ==
    /\ pc = "called"
    /\ op = "normalize_name"
    /\ result' = normalize_name(arg)
    /\ pc' = "returned"
    /\ UNCHANGED <<raw_data, payload, _PRICE_DATA, products_cache, op, arg, scores>>

NextNorm == NormalizeName

SpecNorm == InitNorm /\ [][NextNorm]_vars

(***************************************************************************)
(* Specification of _normalize_size_phrase: the input is a respelling of a *)
(* plain size phrase (arg.base), drawn in Init.                            *)
(***************************************************************************)
Range(f) == {f[x] : x \in DOMAIN f}

Title(s) == IF Len(s) = 0 THEN "" ELSE UpperCh(Head(s)) \o Tail(s)

\* the spellings of one word of a plain phrase: any alias of a unit, in any case
Spellings(word) ==
    IF word \in Range(size_aliases)
    THEN UNION {{a, Upper(a), Title(a)} : a \in {k \in DOMAIN size_aliases : size_aliases[k] = word}}
    ELSE {word}

IsNumber(word) == \A i \in 1..Len(word) : Ch(word, i) \in DIGITS \cup {"."}

\* what may stand between two words: spaces, punctuation, brackets, and
\* nothing at all between a number and the unit that follows it
Gaps(left, right) ==
    {" ", "  ", " (", "-", ". "}
      \cup (IF IsNumber(left) /\ ~IsNumber(right) THEN {""} ELSE {})

Closings == {"", ")", "."}

RECURSIVE Respellings(_)
Respellings(words) ==
    IF Len(words) = 1 THEN {w \o c : w \in Spellings(words[1]), c \in Closings}
    ELSE {w \o g \o rest : w \in Spellings(words[1]),
                           g \in Gaps(words[1], words[2]),
                           rest \in Respellings(Tail(words))}

PlainPhrases == {<<"18", "ltr", "drum">>, <<"3.6", "gallon">>, <<"5", "kg">>}

SizeInputs ==
    UNION {{[value |-> v, base |-> Join(words, " ")] : v \in Respellings(words)} :
           words \in PlainPhrases}

InitSize ==
    /\ raw_data = None
    /\ payload = None
    /\ _PRICE_DATA = NotLoaded
    /\ products_cache = NotLoaded
    /\ pc = "called"
    /\ op = "_normalize_size_phrase"
    /\ arg \in SizeInputs
    /\ result = None
    /\ scores = NoScores

NormalizeSizePhrase ==
    /\ pc = "called"
    /\ op = "_normalize_size_phrase"
    /\ result' = _normalize_size_phrase(arg.value)
    /\ pc' = "returned"
    /\ UNCHANGED <<raw_data, payload, _PRICE_DATA, products_cache, op, arg, scores>>

NextSize == NormalizeSizePhrase

SpecSize == InitSize /\ [][NextSize]_vars

(***************************************************************************)
(* Specification of the product-name lookup.                               *)
(***************************************************************************)
NameQueries ==
    {"Primer", " PRIMER ", "primer plus", "Primer   Plus", "road", "Road Primer",
     "rimer", "acrylic", "national acrylic primer (w.b.)", "NATIONAL AQUA ACRYLIC PRIMER",
     "national", "plus one"}
      \cup StringsUpTo({"p", "R", " "}, MaxLen)

InitProducts ==
    /\ raw_data = None
    /\ payload \in ProductDocs
    /\ _PRICE_DATA = NotLoaded
    /\ products_cache = NotLoaded
    /\ pc = "called"
    /\ op = "find_product_by_name"
    /\ arg \in {[name |-> n] : n \in NameQueries}
    /\ result = None
    /\ scores = NoScores

FindProductByName ==
    /\ pc = "called"
    /\ op = "find_product_by_name"
    /\ result' = find_product_by_name(arg.name)
    /\ products_cache' = IF Len(arg.name) = 0 THEN products_cache ELSE ProductsLoaded
    /\ pc' = "returned"
    /\ UNCHANGED <<raw_data, payload, _PRICE_DATA, op, arg, scores>>

NextProducts == GetAllProducts \/ FindProductByName

SpecProducts == InitProducts /\ [][NextProducts]_vars

(***************************************************************************)
(* rag/__init__.py: the retrieval pipeline over pre-built text chunks.     *)
(***************************************************************************)
MaxTopK == 3         \* largest top_k a caller passes to get_contexts

Min(a, b) == IF a < b THEN a ELSE b

_normalise_text(value) == Join(Split(Lower(value)), " ")

\* an entry of the index document; only mappings become records
IndexEntry(text, chunk) == [t |-> "dict", text |-> text, metadata |-> [chunk |-> chunk]]
StrayEntry == [t |-> "str", text |-> "", metadata |-> [chunk |-> 0]]

\* RetrievalPipeline.__init__: self._records built from the loaded document
_records(document) ==
    LET entries == SelectSeq(document, LAMBDA entry : entry.t = "dict")
    IN  [i \in 1..Len(entries) |-> [text |-> entries[i].text, metadata |-> entries[i].metadata]]

\* lowered.count(token) from position i on: occurrences that do not overlap
RECURSIVE CountFrom(_, _, _)
CountFrom(lowered, token, i) ==
    IF i + Len(token) - 1 > Len(lowered) THEN 0
    ELSE IF OccursAt(lowered, token, i)
         THEN 1 + CountFrom(lowered, token, i + Len(token))
         ELSE CountFrom(lowered, token, i + 1)

RECURSIVE ScoreLoop(_, _)
ScoreLoop(lowered, tokens) ==
    IF Len(tokens) = 0 THEN 0
    ELSE (IF Len(Head(tokens)) = 0 THEN 0 ELSE CountFrom(lowered, Head(tokens), 1))
         + ScoreLoop(lowered, Tail(tokens))

_score_text(text, tokens) == ScoreLoop(Lower(text), tokens)

RetrievedChunk(text, score, metadata) == [text |-> text, score |-> score, metadata |-> metadata]

\* get_contexts with the final sort left out
get_contexts_unranked(records, query, top_k) ==
    LET Top(ranked) == SubSeq(ranked, 1, Min(top_k, Len(ranked)))
        Fallback(ranked) ==
            IF Len(ranked) > 0 THEN ranked
            ELSE [i \in 1..Min(top_k, Len(records)) |->
                    RetrievedChunk(records[i].text, 0, records[i].metadata)]
        Rank(tokens) ==
            LET scored == [i \in 1..Len(records) |->
                             RetrievedChunk(records[i].text,
                                            _score_text(records[i].text, tokens),
                                            records[i].metadata)]
            IN  Top(Fallback(SelectSeq(scored, LAMBDA chunk : chunk.score > 0)))
        Tokens(tokens) == IF Len(tokens) = 0 THEN <<>> ELSE Rank(tokens)
    IN  Tokens(SelectSeq(Split(_normalise_text(query)), LAMBDA token : Len(token) > 0))

\* get_contexts without the fallback to the first records
get_contexts_without_fallback(records, query, top_k) ==
    LET Top(ranked) == SubSeq(ranked, 1, Min(top_k, Len(ranked)))
        Rank(tokens) ==
            LET scored == [i \in 1..Len(records) |->
                             RetrievedChunk(records[i].text,
                                            _score_text(records[i].text, tokens),
                                            records[i].metadata)]
            IN  Top(SortByScore(SelectSeq(scored, LAMBDA chunk : chunk.score > 0)))
        Tokens(tokens) == IF Len(tokens) = 0 THEN <<>> ELSE Rank(tokens)
    IN  Tokens(SelectSeq(Split(_normalise_text(query)), LAMBDA token : Len(token) > 0))

\* RetrievalPipeline.get_contexts(query, top_k=top_k) over self._records
get_contexts(records, query, top_k) ==
    LET Top(ranked) == SubSeq(ranked, 1, Min(top_k, Len(ranked)))
        Fallback(ranked) ==
            IF Len(ranked) > 0 THEN ranked
            ELSE [i \in 1..Min(top_k, Len(records)) |->
                    RetrievedChunk(records[i].text, 0, records[i].metadata)]
        Rank(tokens) ==
            LET scored == [i \in 1..Len(records) |->
                             RetrievedChunk(records[i].text,
                                            _score_text(records[i].text, tokens),
                                            records[i].metadata)]
            IN  Top(SortByScore(Fallback(SelectSeq(scored, LAMBDA chunk : chunk.score > 0))))
        Tokens(tokens) == IF Len(tokens) = 0 THEN <<>> ELSE Rank(tokens)
    IN  Tokens(SelectSeq(Split(_normalise_text(query)), LAMBDA token : Len(token) > 0))

(***************************************************************************)
(* Specification of the retrieval pipeline: a pipeline constructed over an *)
(* index document, one get_contexts call in flight.                        *)
(***************************************************************************)
IndexDocuments ==
    { <<>>,
      << IndexEntry("Acrylic PRIMER for walls", 1), IndexEntry("Road paint", 2),
         IndexEntry("primer and paint primer", 3) >>,
      << StrayEntry, IndexEntry("aaa", 1), IndexEntry("Zinc primer", 2),
         IndexEntry("Zinc paint", 3), IndexEntry("", 4), IndexEntry("Paint and primer", 5) >> }

Queries ==
    {"", " \t ", "primer", "PRIMER  Paint", "zinc", "aa", "a", "oxide", "oxide  blue",
     "paint", "primer primer", "walls zinc", "paint primer"}

InitRag ==
    /\ raw_data = None
    /\ payload \in IndexDocuments
    /\ _PRICE_DATA = NotLoaded
    /\ products_cache = NotLoaded
    /\ pc = "called"
    /\ op = "get_contexts"
    /\ arg \in {[query |-> q, top_k |-> k] : q \in Queries, k \in 0..MaxTopK}
    /\ result = None
    /\ scores = NoScores

GetContexts ==
    /\ pc = "called"
    /\ op = "get_contexts"
    /\ result' = get_contexts(_records(payload), arg.query, arg.top_k)
    /\ pc' = "returned"
    /\ UNCHANGED <<raw_data, payload, _PRICE_DATA, products_cache, op, arg, scores>>

NextRag == GetContexts

SpecRag == InitRag /\ [][NextRag]_vars

(***************************************************************************)
(* Specification of the fuzzy matcher: one process.extract call in flight; *)
(* the scorer's answers are chosen when the call runs and kept in scores.  *)
(***************************************************************************)
MaxLimit == 3        \* largest limit a caller passes to process.extract

ChoiceLists ==
    { <<>>, <<"Primer", "Thinner">>, <<"Primer", "Putty", "Paint", "Thinner">> }

Cutoffs == {product_similarity_threshold, code_similarity_threshold}

InitExtract ==
    /\ raw_data = None
    /\ payload = None
    /\ _PRICE_DATA = NotLoaded
    /\ products_cache = NotLoaded
    /\ pc = "called"
    /\ op = "extract"
    /\ arg \in {[query |-> q, choices |-> c, score_cutoff |-> t, limit |-> n] :
                  q \in {"Primer", "Filler"}, c \in ChoiceLists, t \in Cutoffs,
                  n \in 0..MaxLimit}
    /\ result = None
    /\ scores = NoScores

Extract ==
    /\ pc = "called"
    /\ op = "extract"
    /\ \E v \in ScoreVectors(arg.query, arg.choices, arg.score_cutoff) :
         /\ result' = extract(arg.choices, v, arg.score_cutoff, arg.limit)
         /\ scores' = [NoScores EXCEPT !.name = v]
    /\ pc' = "returned"
    /\ UNCHANGED <<raw_data, payload, _PRICE_DATA, products_cache, op, arg>>

NextExtract == Extract

SpecExtract == InitExtract /\ [][NextExtract]_vars

(***************************************************************************)
(* Specification of the code/size extractor: one _extract_code_and_size    *)
(* call in flight on the trigger-stripped remainder of a price query.      *)
(***************************************************************************)
MaxTokens == 3       \* most whitespace tokens in a remainder

RemainderWords == {"A119", "A119,", "18", "ltr", "in", "for", "price"}

Remainders == {Join(tokens, " ") : tokens \in SeqsUpTo(RemainderWords, MaxTokens)}

InitParse ==
    /\ raw_data = None
    /\ payload = None
    /\ _PRICE_DATA = NotLoaded
    /\ products_cache = NotLoaded
    /\ pc = "called"
    /\ op = "_extract_code_and_size"
    /\ arg \in {[text |-> t] : t \in Remainders}
    /\ result = None
    /\ scores = NoScores

ExtractCodeAndSize ==
    /\ pc = "called"
    /\ op = "_extract_code_and_size"
    /\ result' = _extract_code_and_size(arg.text)
    /\ pc' = "returned"
    /\ UNCHANGED <<raw_data, payload, _PRICE_DATA, products_cache, op, arg, scores>>

NextParse == ExtractCodeAndSize

SpecParse == InitParse /\ [][NextParse]_vars

(***************************************************************************)
(* paint_assistant.py: price lookups that scan the price document.         *)
(***************************************************************************)
_iter_price_products(price_data) == DocProducts(price_data)

_normalize_product_code(value) == Upper(Strip(value))

_normalize_size(value) == Join(Split(Lower(Strip(value))), " ")

\* how a call ends: a returned value, or a raised KeyError
Return(value) == [raised |-> FALSE, error |-> "", value |-> value]
KeyError(value) == [raised |-> TRUE, error |-> "KeyError", value |-> value]

\* paint_assistant.get_price(product_code, size, price_data=price_data)
paint_assistant_get_price(price_data, product_code, size) ==
    LET Tier_(entries, k) == IF k = 0 THEN KeyError(NoPrice) ELSE Return(entries[k].price)
        Sizes(entries, normalized_size) ==
            Tier_(entries, FirstTrue([k \in 1..Len(entries) |->
                                        _normalize_size(entries[k].size) = normalized_size]))
        Product_(products, i) ==
            IF i = 0 THEN KeyError(NoPrice)
            ELSE Sizes(products[i].prices, _normalize_size(size))
        Scan(products, normalized_code) ==
            Product_(products,
                     FirstTrue([i \in 1..Len(products) |->
                                  _normalize_product_code(products[i].product_code)
                                    = normalized_code]))
    IN  Scan(_iter_price_products(price_data), _normalize_product_code(product_code))

\* list_sizes answering an unknown code with an empty list
paint_assistant_list_sizes_lenient(price_data, product_code) ==
    LET Product_(products, i) ==
            IF i = 0 THEN Return(<<>>)
            ELSE Return([k \in 1..Len(products[i].prices) |-> products[i].prices[k].size])
        Scan(products, normalized_code) ==
            Product_(products,
                     FirstTrue([i \in 1..Len(products) |->
                                  _normalize_product_code(products[i].product_code)
                                    = normalized_code]))
    IN  Scan(_iter_price_products(price_data), _normalize_product_code(product_code))

\* paint_assistant.list_sizes(product_code, price_data=price_data)
paint_assistant_list_sizes(price_data, product_code) ==
    LET Product_(products, i) ==
            IF i = 0 THEN KeyError(<<>>)
            ELSE Return([k \in 1..Len(products[i].prices) |-> products[i].prices[k].size])
        Scan(products, normalized_code) ==
            Product_(products,
                     FirstTrue([i \in 1..Len(products) |->
                                  _normalize_product_code(products[i].product_code)
                                    = normalized_code]))
    IN  Scan(_iter_price_products(price_data), _normalize_product_code(product_code))

(***************************************************************************)
(* app.py: the price records DataIndex keeps under a product code.         *)
(***************************************************************************)
flatten_price_list(node) ==
    LET Records(products) ==
            [i \in 1..Len(products) |->
               [product_name |-> products[i].product_name,
                product_code |-> products[i].product_code,
                prices |-> products[i].prices]]
    IN  Records(DocProducts(node))

\* DataIndex.load: the list code_to_price_entries holds under a key
code_to_price_entries(prices_raw, key) ==
    SelectSeq(flatten_price_list(prices_raw),
              LAMBDA r : /\ Len(r.product_name) > 0
                         /\ Len(r.product_code) > 0
                         /\ Strip(r.product_code) = key)

\* DataIndex.get_price_by_code(code)
get_price_by_code(prices_raw, code) == code_to_price_entries(prices_raw, Strip(code))

(***************************************************************************)
(* Specification of the price lookups: one lookup in flight against a      *)
(* price document that may hold colliding size labels or product codes.    *)
(***************************************************************************)
A119_tiers ==
    PriceProduct("A119", "National Acrylic Primer (W.B.)",
                 <<Tier("18 Ltr (Drum)", 8000), Tier("3.6 Ltr (Gallon)", 1800),
                   Tier("18  LTR (drum)", 8500)>>, <<>>)

A119_later ==
    PriceProduct(" A119", "Acrylic Primer New",
                 <<Tier("18 Ltr (Drum)", 9000), Tier("1 Ltr", 700)>>, <<>>)

LookupDocs ==
    { PriceDocument(<<A119, B200>>),
      PriceDocument(<<A119_tiers, B200>>),
      PriceDocument(<<A119, B200, A119_later>>),
      PriceDocument(<<A015, A119>>) }

LookupCodes == {"A119", " a119 ", "a119", "B200", "ZZZZ", "A015"}

LookupSizes ==
    {"18 Ltr (Drum)", " 18   LTR   (DRUM)  ", "18\tltr (drum)", "3.6 ltr (gallon)",
     "1 Ltr", "5 kg", "9 Kg", "5 Kg", "18  LTR (drum)",
     "White " \o U00E2 \o U20AC \o U201C \o " 18 Ltr (Drum)",
     "White " \o U2013 \o " 18 Ltr (Drum)", "APS " \o U2013 \o " 18 Ltr (Drum)"}

InitLookup ==
    /\ raw_data \in LookupDocs
    /\ payload = None
    /\ _PRICE_DATA = NotLoaded
    /\ products_cache = NotLoaded
    /\ pc = "called"
    /\ \/ /\ op \in {"get_price", "paint_assistant.get_price"}
          /\ arg \in {[code |-> c, size |-> z] : c \in LookupCodes, z \in LookupSizes}
       \/ /\ op \in {"list_sizes", "paint_assistant.list_sizes", "get_price_by_code"}
          /\ arg \in {[code |-> c, size |-> ""] : c \in LookupCodes}
    /\ result = None
    /\ scores = NoScores

GetPrice ==
    /\ pc = "called"
    /\ op = "get_price"
    /\ result' = get_price(arg.code, arg.size)
    /\ _PRICE_DATA' = PriceDataLoaded
    /\ pc' = "returned"
    /\ UNCHANGED <<raw_data, payload, products_cache, op, arg, scores>>

ListSizes ==
    /\ pc = "called"
    /\ op = "list_sizes"
    /\ result' = list_sizes(arg.code)
    /\ _PRICE_DATA' = PriceDataLoaded
    /\ pc' = "returned"
    /\ UNCHANGED <<raw_data, payload, products_cache, op, arg, scores>>

PaintGetPrice ==
    /\ pc = "called"
    /\ op = "paint_assistant.get_price"
    /\ result' = paint_assistant_get_price(raw_data, arg.code, arg.size)
    /\ pc' = "returned"
    /\ UNCHANGED <<raw_data, payload, _PRICE_DATA, products_cache, op, arg, scores>>

PaintListSizes ==
    /\ pc = "called"
    /\ op = "paint_assistant.list_sizes"
    /\ result' = paint_assistant_list_sizes(raw_data, arg.code)
    /\ pc' = "returned"
    /\ UNCHANGED <<raw_data, payload, _PRICE_DATA, products_cache, op, arg, scores>>

GetPriceByCode ==
    /\ pc = "called"
    /\ op = "get_price_by_code"
    /\ result' = get_price_by_code(raw_data, arg.code)
    /\ pc' = "returned"
    /\ UNCHANGED <<raw_data, payload, _PRICE_DATA, products_cache, op, arg, scores>>

NextLookup ==
    LoadPriceData \/ GetPrice \/ ListSizes \/ PaintGetPrice \/ PaintListSizes \/ GetPriceByCode

SpecLookup == InitLookup /\ [][NextLookup]_vars

(***************************************************************************)
(* Specification of the lazy construction of the price index: two callers  *)
(* run _load_price_data() concurrently, statement by statement, without a  *)
(* lock, each building its index in a local price_data.                    *)
(***************************************************************************)
Callers == {"c1", "c2"}

LoadDocs == PriceDocs \cup LookupDocs

\* if _PRICE_DATA is not None
CacheHit(cache) == cache.loaded

\* the product loop has run to its end after one product
LoopDone_early(products, next) == next > 1

\* the product loop has run to its end
LoopDone(products, next) == next > Len(products)

\* _PRICE_DATA = price_data
Published(price_data) == [loaded |-> TRUE, data |-> price_data]

InitLoad ==
    /\ raw_data \in LoadDocs
    /\ payload = None
    /\ _PRICE_DATA = NotLoaded
    /\ products_cache = NotLoaded
    /\ op = "_load_price_data"
    /\ pc = [c \in Callers |-> "called"]
    /\ arg = [c \in Callers |-> [price_data |-> <<>>, next |-> 1]]
    /\ result = [c \in Callers |-> <<>>]
    /\ scores = NoScores

\* a caller reads the module cache and returns it, or starts to build
LoadCheck(c) ==
    /\ pc[c] = "called"
    /\ IF CacheHit(_PRICE_DATA)
       THEN /\ result' = [result EXCEPT ![c] = _PRICE_DATA.data]
            /\ pc' = [pc EXCEPT ![c] = "returned"]
       ELSE /\ result' = result
            /\ pc' = [pc EXCEPT ![c] = "building"]
    /\ UNCHANGED <<raw_data, payload, _PRICE_DATA, products_cache, op, arg, scores>>

\* one iteration of the product loop on the caller's local price_data
LoadProduct(c) ==
    /\ pc[c] = "building"
    /\ ~LoopDone(DocProducts(raw_data), arg[c].next)
    /\ arg' = [arg EXCEPT ![c] =
                 [price_data |-> AddProduct(arg[c].price_data,
                                            DocProducts(raw_data)[arg[c].next],
                                            Upper(raw_data.currency)),
                  next |-> arg[c].next + 1]]
    /\ UNCHANGED <<raw_data, payload, _PRICE_DATA, products_cache, op, pc, result, scores>>

\* the caller stores its local price_data in the module cache
LoadPublish(c) ==
    /\ pc[c] = "building"
    /\ LoopDone(DocProducts(raw_data), arg[c].next)
    /\ _PRICE_DATA' = Published(arg[c].price_data)
    /\ pc' = [pc EXCEPT ![c] = "published"]
    /\ UNCHANGED <<raw_data, payload, products_cache, op, arg, result, scores>>

\* return _PRICE_DATA
LoadReturn(c) ==
    /\ pc[c] = "published"
    /\ result' = [result EXCEPT ![c] = _PRICE_DATA.data]
    /\ pc' = [pc EXCEPT ![c] = "built"]
    /\ UNCHANGED <<raw_data, payload, _PRICE_DATA, products_cache, op, arg, scores>>

\* a caller that holds the index goes on to list the sizes of a code
LoadLookup(c) ==
    /\ pc[c] \in {"returned", "built"}
    /\ \E code \in {"A119", "A015"} :
         result' = [result EXCEPT ![c] = [sizes |-> list_sizes(code), index |-> result[c]]]
    /\ _PRICE_DATA' = PriceDataLoaded
    /\ pc' = [pc EXCEPT ![c] = IF pc[c] = "built" THEN "built_looked" ELSE "returned_looked"]
    /\ UNCHANGED <<raw_data, payload, products_cache, op, arg, scores>>

NextLoad ==
    \E c \in Callers :
      LoadCheck(c) \/ LoadProduct(c) \/ LoadPublish(c) \/ LoadReturn(c) \/ LoadLookup(c)

SpecLoad == InitLoad /\ [][NextLoad]_vars

(***************************************************************************)
(* app/core/quote.py: totals of a quotation.  Amounts are Decimals with    *)
(* two places, held here as whole fils (1 fils = 0.01).                    *)
(***************************************************************************)
MaxRows == 2

\* VAT_RATE = Decimal("0.05"), in percent
VAT_RATE == 5

Abs(n) == IF n < 0 THEN -n ELSE n

Sign(n) == IF n < 0 THEN -1 ELSE 1

\* (numerator / denominator).quantize(MONEY_QUANT, rounding=ROUND_HALF_UP):
\* the nearest whole fils, a tie going away from zero
quantize(numerator, denominator) ==
    Sign(numerator) * ((2 * Abs(numerator) + denominator) \div (2 * denominator))

RECURSIVE sum(_, _)
sum(items, start) ==
    IF Len(items) = 0 THEN start
    ELSE sum(Tail(items), start + Head(items).line_net)

compute_totals(items) ==
    LET subtotal == quantize(sum(items, 0), 1)
        vat == quantize(subtotal * VAT_RATE, 100)
        total == quantize(subtotal + vat, 1)
    IN  [subtotal |-> subtotal, vat |-> vat, total |-> total]

SyntaxError == [raised |-> TRUE, error |-> "SyntaxError", value |-> None]

\* whether app/core/quote.py compiles: leftovers of an unresolved merge end
\* the body of _to_decimal after its docstring, and the indented statement
\* that follows is rejected ("unexpected indent")
quote_compiles == FALSE

\* from app.core.quote import compute_totals; compute_totals(items)
call_compute_totals(items) ==
    IF quote_compiles THEN Return(compute_totals(items)) ELSE SyntaxError

LineNets == {0, 1, 10, 30, 1000, 5400, 10010, 14400, -10}

RowLists ==
    UNION {[1..n -> {[line_net |-> a] : a \in LineNets}] : n \in 0..MaxRows}

InitQuote ==
    /\ raw_data = None
    /\ payload = None
    /\ _PRICE_DATA = NotLoaded
    /\ products_cache = NotLoaded
    /\ op = "compute_totals"
    /\ arg \in {[items |-> rows] : rows \in RowLists}
    /\ pc = "called"
    /\ result = None
    /\ scores = NoScores

ComputeTotals ==
    /\ pc = "called"
    /\ op = "compute_totals"
    /\ result' = call_compute_totals(arg.items)
    /\ pc' = "returned"
    /\ UNCHANGED <<raw_data, payload, _PRICE_DATA, products_cache, op, arg, scores>>

NextQuote == ComputeTotals

SpecQuote == InitQuote /\ [][NextQuote]_vars

(***************************************************************************)
(* Specification of the size matcher: one call of _match_size_alias with   *)
(* the default configuration.                                              *)
(***************************************************************************)
AliasSizes == {"", " ", "18 ltr", "18 Ltr (Drum)", "1 Ltr", "5 gal", "drum"}

AliasLists ==
    { <<>>,
      <<"18 Ltr (Drum)">>,
      <<"18 Ltr (Drum)", "3.6 Ltr (Gallon)">>,
      <<"18 Ltr (Drum)", "18  LTR (drum)", "1 Ltr">>,
      <<"1 Ltr", "3.6 Ltr (Gallon)", "18 Ltr (Drum)">> }

InitAlias ==
    /\ raw_data = None
    /\ payload = None
    /\ _PRICE_DATA = NotLoaded
    /\ products_cache = NotLoaded
    /\ op = "_match_size_alias"
    /\ arg \in {[size |-> s, available_sizes |-> l] : s \in AliasSizes, l \in AliasLists}
    /\ pc = "called"
    /\ result = None
    /\ scores = NoScores

MatchSizeAlias ==
    /\ pc = "called"
    /\ op = "_match_size_alias"
    /\ \E r \in _match_size_alias(arg.size, arg.available_sizes) :
         /\ result' = r.match
         /\ scores' = [NoScores EXCEPT !.size = r.scores]
    /\ pc' = "returned"
    /\ UNCHANGED <<raw_data, payload, _PRICE_DATA, products_cache, op, arg>>

NextAlias == MatchSizeAlias

SpecAlias == InitAlias /\ [][NextAlias]_vars

(***************************************************************************)
(* Specification of normalising a size phrase and then normalising the     *)
(* key again, under several alias tables.                                  *)
(***************************************************************************)
\* ChatbotConfig() and configurations with another size_aliases, in each of
\* which every alias target maps to itself
AliasTables ==
    { size_aliases,
      [k \in {"gal", "Gallon"} |-> "Gallon"],
      [k \in {"pk", "5kg"} |-> "5kg"],
      [k \in {"x", ""} |-> ""],
      [k \in {"gal", "us gallon", "us", "usa"} |->
         IF k \in {"us", "usa"} THEN "usa" ELSE "us gallon"],
      [k \in {"can", "cans", "tin"} |-> "tin"] }

IdemValues ==
    {"", " ", "18 Ltr (Drum)", "18ltr drum", "18 LITRE DRUM", "3.6 gal", "5.kg",
     "18 Ltr.", "pk", "5 l", "18 x drum", "1 gal", "2 cans", "a1b2", "5" \o U212A}

InitIdem ==
    /\ raw_data = None
    /\ payload = None
    /\ _PRICE_DATA = NotLoaded
    /\ products_cache = NotLoaded
    /\ op = "_normalize_size_phrase twice"
    /\ arg \in {[value |-> v, size_aliases |-> t] : v \in IdemValues, t \in AliasTables}
    /\ pc = "called"
    /\ result = None
    /\ scores = NoScores

\* key = _normalize_size_phrase(value, config)
NormalizeOnce ==
    /\ pc = "called"
    /\ op = "_normalize_size_phrase twice"
    /\ result' = [key |-> _normalize_size_phrase_config(arg.value, arg.size_aliases)]
    /\ pc' = "normalized"
    /\ UNCHANGED <<raw_data, payload, _PRICE_DATA, products_cache, op, arg, scores>>

\* again = _normalize_size_phrase(key, config)
NormalizeAgain ==
    /\ pc = "normalized"
    /\ op = "_normalize_size_phrase twice"
    /\ result' = [key |-> result.key,
                  again |-> _normalize_size_phrase_config(result.key, arg.size_aliases)]
    /\ pc' = "returned"
    /\ UNCHANGED <<raw_data, payload, _PRICE_DATA, products_cache, op, arg, scores>>

NextIdem == NormalizeOnce \/ NormalizeAgain

SpecIdem == InitIdem /\ [][NextIdem]_vars

(***************************************************************************)
(* Properties.                                                             *)
(***************************************************************************)
Returned(f) == pc = "returned" /\ op = f

\* the products the price document lists under a code (upper-cased, trimmed)
Listed(code) ==
    {i \in 1..Len(DocProducts(raw_data)) :
       Upper(Strip(DocProducts(raw_data)[i].product_code)) = Upper(Strip(code))}

KnownCode(code) == Listed(code) # {}

SameUpToCaseAndSpace(a, b) == Join(Split(Lower(a)), " ") = Join(Split(Lower(b)), " ")

AllBelow(v, threshold) == \A i \in 1..Len(v) : v[i] < threshold

\* C1: respond_to answers an empty or whitespace-only message with the fixed
\* "Please enter a question ..." reply, and on that path neither index is
\* loaded or read and the scorer is not called.
C1_EmptyMessage ==
    [][(/\ pc = "called"
        /\ op = "respond_to"
        /\ Len(Strip(arg.message)) = 0
        /\ pc' = "returned")
       => (/\ result'.kind = "empty_prompt"
           /\ scores' = NoScores
           /\ UNCHANGED <<_PRICE_DATA, products_cache>>)]_vars

C1_Witness ==
    /\ Returned("respond_to")
    /\ arg.message = " \t "
    /\ result.kind = "empty_prompt"
    /\ ~_PRICE_DATA.loaded
    /\ ~products_cache.loaded

\* C2: "How much is <code> in <size>" with an optional trailing "?", for a
\* code of the price document and a size equal to one of its size labels up
\* to case and whitespace, is answered with the price reply that carries the
\* product's name, its code, exactly the catalog label, the tier's price and
\* the catalog currency.
C2_PriceFound ==
    Returned("respond_to") =>
      \A c \in Codes, z \in SizePhrases, e \in Ends :
        arg.message = "How much is " \o c \o " in " \o z \o e =>
          \A i \in Listed(c) :
            LET p == DocProducts(raw_data)[i]
            IN  \A k \in 1..Len(p.prices) :
                  SameUpToCaseAndSpace(p.prices[k].size, z) =>
                    /\ result.kind = "price"
                    /\ result.product_name = p.product_name
                    /\ result.product_code = Upper(Strip(p.product_code))
                    /\ result.size = p.prices[k].size
                    /\ result.price = p.prices[k].price
                    /\ result.currency = raw_data.currency

C2_Witness ==
    /\ Returned("respond_to")
    /\ arg.message = "How much is a119 in 18  LTR (drum)?"
    /\ result.kind = "price"
    /\ result.product_code = "A119"
    /\ result.size = "18 Ltr (Drum)"
    /\ result.price = 8000

\* C3 as claimed: whenever the exact size lookup fails for a known code, the
\* reply is the size-not-found reply, quotes no price and lists the code's
\* size labels.
C3_AnyFailedLookup ==
    Returned("respond_to") =>
      \A c \in Codes, j \in Joiners, z \in SizePhrases, e \in Ends :
        (/\ arg.message = "How much is " \o c \o " " \o j \o " " \o z \o e
         /\ KnownCode(c)
         /\ get_price(c, z) = NoPrice)
        => (/\ result.kind = "size_not_found"
            /\ result.price = NoPrice
            /\ result.sizes = list_sizes(c))

\* C3 amended: when the exact size lookup fails for a known code and no size
\* label of the code scores at or above the size threshold against the
\* requested size, the reply is the size-not-found reply, quotes no price and
\* lists exactly the code's size labels, verbatim and in catalog order.
C3_NoCloseSize ==
    Returned("respond_to") =>
      \A c \in Codes, j \in Joiners, z \in SizePhrases, e \in Ends :
        (/\ arg.message = "How much is " \o c \o " " \o j \o " " \o z \o e
         /\ KnownCode(c)
         /\ get_price(c, z) = NoPrice
         /\ AllBelow(scores.size, size_similarity_threshold))
        => (/\ result.kind = "size_not_found"
            /\ result.price = NoPrice
            /\ result.closest = ""
            /\ result.requested = z
            /\ result.sizes = list_sizes(c))

C3_Witness ==
    /\ Returned("respond_to")
    /\ arg.message = "How much is A119 in 1 Ltr?"
    /\ Len(scores.size) = 2
    /\ AllBelow(scores.size, size_similarity_threshold)
    /\ result.kind = "size_not_found"
    /\ result.sizes = <<"18 Ltr (Drum)", "3.6 Ltr (Gallon)">>

\* C4: a price question for a code that is not in the price document, when
\* no catalog code scores at or above the code threshold, gets the
\* code-not-found reply naming the requested code, with no suggestions and
\* no price.
C4_UnknownCode ==
    Returned("respond_to") =>
      \A c \in Codes, j \in Joiners, z \in SizePhrases, e \in Ends :
        (/\ arg.message = "How much is " \o c \o " " \o j \o " " \o z \o e
         /\ ~KnownCode(c)
         /\ AllBelow(scores.code, code_similarity_threshold))
        => (/\ result.kind = "code_not_found"
            /\ result.requested = c
            /\ Len(result.suggestions) = 0
            /\ result.price = NoPrice)

C4_Witness ==
    /\ Returned("respond_to")
    /\ arg.message = "How much is ZZZZ in 18 Ltr (Drum)"
    /\ Len(scores.code) = 2
    /\ AllBelow(scores.code, code_similarity_threshold)
    /\ result.kind = "code_not_found"
    /\ result.requested = "ZZZZ"
    /\ Len(result.suggestions) = 0

\* C5: a price query that names a known code and no size is answered
\* without a price by the reply that names the code and lists all its size
\* labels; price_lookup_tool returns found = False, missing_fields =
\* ["size"] and available_sizes = the code's size list.
C5_MissingSize ==
    /\ Returned("respond_to") =>
         \A l \in {"How much is", "how much does", "Price of"},
            c \in Codes \cup {"N001"}, e \in Ends :
           (arg.message = l \o " " \o c \o e /\ KnownCode(c))
           => (/\ result.kind = IF Len(list_sizes(c)) > 0
                                THEN "sizes_available" ELSE "no_size_details"
               /\ result.price = NoPrice
               /\ result.product_code = Upper(c)
               /\ result.sizes = list_sizes(c))
    /\ (Returned("price_lookup_tool") /\ KnownCode(arg.code) /\ Len(Strip(arg.size)) = 0)
         => (/\ ~result.found
             /\ ~result.has_price
             /\ result.has_missing_fields
             /\ result.missing_fields = <<"size">>
             /\ result.has_available_sizes
             /\ result.available_sizes = list_sizes(arg.code))

C5_Witness ==
    /\ Returned("price_lookup_tool")
    /\ arg.code = " a119 "
    /\ arg.size = " "
    /\ ~result.found
    /\ result.missing_fields = <<"size">>
    /\ result.available_sizes = <<"18 Ltr (Drum)", "3.6 Ltr (Gallon)">>

\* C6: "How much is the price of <code>?" for a known code resolves the
\* product code to <code>, not to the word "price": the reply lists the
\* sizes of <code> and names it.
C6_PriceOfPhrase ==
    Returned("respond_to") =>
      \A c \in Codes, e \in Ends :
        (arg.message = "How much is the price of " \o c \o e /\ KnownCode(c))
        => (/\ result.kind \in {"sizes_available", "size_not_found"}
            /\ result.product_code = Upper(c)
            /\ result.sizes = list_sizes(c)
            /\ ~(result.kind = "code_not_found" /\ Lower(result.requested) = "price"))

\* C7: a question that is neither a price nor a product question and that
\* resembles no product name or code above the thresholds, such as "What's
\* the weather like today?", gets the fixed help reply.
C7_FallbackHelp ==
    Returned("respond_to") =>
      \A e \in Ends :
        (/\ arg.message = "What's the weather like today" \o e
         /\ AllBelow(scores.name, product_similarity_threshold)
         /\ AllBelow(scores.code, code_similarity_threshold))
        => result.kind = "help"

\* C8: normalize_name is idempotent: normalising a normalised name returns it
\* unchanged.
C8_Idempotent ==
    Returned("normalize_name") => normalize_name(result) = result

CountCh(s, c) == Len(SelectSeq(s, LAMBDA x : x = c))

C10_ExactFirst ==
    Returned("find_product_by_name") =>
      LET products == _flatten_products(payload)
          Named(i) == _normalize_text(Get(products[i], "product_name", ""))
      IN  (Len(arg.name) > 0 /\ \E i \in 1..Len(products) : Named(i) = _normalize_text(arg.name))
          => (/\ result.t = "dict"
              /\ _normalize_text(Get(result, "product_name", "")) = _normalize_text(arg.name))

C10_Witness ==
    /\ Returned("find_product_by_name")
    /\ arg.name = " PRIMER "
    /\ Contains(_normalize_text(Get(_flatten_products(payload)[1], "product_name", "")), "primer")
    /\ Get(_flatten_products(payload)[1], "product_name", "") # "Primer"
    /\ result.t = "dict"
    /\ Get(result, "product_name", "") = "Primer"

\* the lower-cased whitespace-separated tokens of a query
QueryTokens(query) == Split(Lower(query))

\* no token of the query occurs in the text of any record
NoOverlap(records, query) ==
    \A i \in 1..Len(records) : \A k \in 1..Len(QueryTokens(query)) :
        ~Contains(Lower(records[i].text), QueryTokens(query)[k])

\* C11: for a corpus of N chunks and every query none of whose tokens occurs
\* in a chunk text, get_contexts returns exactly min(top_k, N) chunks, the
\* first chunks of the corpus, each with score 0; so never an empty list
\* while N > 0 and top_k > 0.
C11_FallbackGuarantee ==
    (Returned("get_contexts") /\ NoOverlap(_records(payload), arg.query)) =>
      LET records == _records(payload)
      IN  /\ Len(result) = Min(arg.top_k, Len(records))
          /\ \A i \in 1..Len(result) :
               result[i] = RetrievedChunk(records[i].text, 0, records[i].metadata)

\* C11, amended: for every query that has at least one token, none of whose
\* tokens occurs in a chunk text, get_contexts returns exactly min(top_k, N)
\* chunks, the first chunks of the corpus, each with score 0; a query without
\* tokens is answered with the empty list.
C11_FallbackWithTokens ==
    Returned("get_contexts") =>
      LET records == _records(payload)
      IN  /\ (Len(QueryTokens(arg.query)) > 0 /\ NoOverlap(records, arg.query)) =>
                /\ Len(result) = Min(arg.top_k, Len(records))
                /\ \A i \in 1..Len(result) :
                     result[i] = RetrievedChunk(records[i].text, 0, records[i].metadata)
          /\ Len(QueryTokens(arg.query)) = 0 => result = <<>>

C11_Witness ==
    /\ Returned("get_contexts")
    /\ arg.query = "oxide  blue"
    /\ arg.top_k = 2
    /\ Len(_records(payload)) = 5
    /\ result = << RetrievedChunk("aaa", 0, [chunk |-> 1]),
                   RetrievedChunk("Zinc primer", 0, [chunk |-> 2]) >>

\* the position in the corpus of the record a returned chunk was built from
CorpusPosition(records, chunk) ==
    CHOOSE i \in 1..Len(records) : records[i].metadata = chunk.metadata

\* C12: get_contexts returns chunks in descending score order, chunks of
\* equal score in corpus order, at most top_k of them, and a chunk with
\* score 0 only when no chunk of the corpus scores above 0.
C12_Ranked ==
    Returned("get_contexts") =>
      LET records == _records(payload)
      IN  /\ Len(result) <= arg.top_k
          /\ \A i, j \in 1..Len(result) :
               i < j => \/ result[i].score > result[j].score
                        \/ /\ result[i].score = result[j].score
                           /\ CorpusPosition(records, result[i])
                                < CorpusPosition(records, result[j])
          /\ (\E i \in 1..Len(result) : result[i].score = 0)
               => NoOverlap(records, arg.query)

C12_Witness ==
    /\ Returned("get_contexts")
    /\ arg.query = "paint primer"
    /\ Len(_records(payload)) = 5
    /\ arg.top_k = 3
    /\ Len(result) = 3
    /\ result[1].metadata.chunk = 5 /\ result[1].score = 2
    /\ result[2].metadata.chunk = 2 /\ result[2].score = 1
    /\ result[3].metadata.chunk = 3 /\ result[3].score = 1

\* the position of a returned candidate in the choices it was drawn from
ChoicePosition(choices, item) ==
    CHOOSE i \in 1..Len(choices) : choices[i] = item.choice

\* C13: process.extract returns only candidates whose score reaches the
\* threshold, at most limit of them, in descending score order with equal
\* scores in the order of the choices; when no candidate reaches the
\* threshold it returns the empty list.
C13_Extract ==
    Returned("extract") =>
      LET choices == arg.choices
          v == scores.name
          Pos(k) == ChoicePosition(choices, result[k])
      IN  /\ Len(result) <= arg.limit
          /\ \A k \in 1..Len(result) :
               /\ \E i \in 1..Len(choices) : choices[i] = result[k].choice
               /\ result[k].score = v[Pos(k)]
               /\ result[k].score >= arg.score_cutoff
          /\ \A k, l \in 1..Len(result) :
               k < l => \/ result[k].score > result[l].score
                        \/ result[k].score = result[l].score /\ Pos(k) < Pos(l)
          /\ (\A i \in 1..Len(choices) : v[i] < arg.score_cutoff) => result = <<>>

C13_Witness ==
    /\ Returned("extract")
    /\ arg.limit = 2
    /\ arg.score_cutoff = product_similarity_threshold
    /\ arg.choices = <<"Primer", "Putty", "Paint", "Thinner">>
    /\ scores.name = <<75, 100, 74, 100>>
    /\ result = << [choice |-> "Putty", score |-> 100], [choice |-> "Thinner", score |-> 100] >>

HasDigit(token) == \E i \in 1..Len(token) : Ch(token, i) \in DIGITS
HasLetter(token) == \E i \in 1..Len(token) : Ch(token, i) \in LETTERS

\* the positions of the standalone word 'in' among the tokens of a remainder
InPositions(tokens) == {i \in 1..Len(tokens) : Lower(tokens[i]) = "in"}

\* the positions of the tokens that hold both a digit and a letter
CodeShaped(tokens) == {i \in 1..Len(tokens) : HasDigit(tokens[i]) /\ HasLetter(tokens[i])}

\* C14: when the remainder holds no standalone 'in', the extractor picks as
\* code the last whitespace token that holds both a digit and a letter,
\* whatever words precede it, and the size is the text after that token.
C14_LastCodeShapedToken ==
    (/\ Returned("_extract_code_and_size")
     /\ InPositions(Split(arg.text)) = {}
     /\ CodeShaped(Split(arg.text)) # {}) =>
      LET tokens == Split(arg.text)
          last == CHOOSE i \in CodeShaped(tokens) : \A j \in CodeShaped(tokens) : j <= i
      IN  /\ result.ok
          /\ result.code = _strip_trailing_punctuation(tokens[last])
          /\ result.size = _strip_trailing_punctuation(
                             Join(SubSeq(tokens, last + 1, Len(tokens)), " "))

\* C15: the extractor never returns a digits-only code for a phrase that
\* also holds letters (such as the '18' of '18 ltr'); it returns none.
C15_DigitsOnlyRejected ==
    (Returned("_extract_code_and_size") /\ HasLetter(arg.text)) =>
      ~(result.ok /\ HasDigit(result.code) /\ ~HasLetter(result.code))

\* C16: when the remainder holds the standalone word 'in' with text on both
\* sides, the extractor splits at its first occurrence: the code is the
\* token nearest it on the left, the size is the whole right side, later
\* 'in', 'for' or 'at' words included.
C16_SplitAtFirstIn ==
    (Returned("_extract_code_and_size") /\ InPositions(Split(arg.text)) # {}) =>
      LET tokens == Split(arg.text)
          first == CHOOSE i \in InPositions(tokens) : \A j \in InPositions(tokens) : i <= j
      IN  (1 < first /\ first < Len(tokens)) =>
            /\ result.ok
            /\ result.code = _strip_trailing_punctuation(tokens[first - 1])
            /\ result.size = _strip_trailing_punctuation(
                               Join(SubSeq(tokens, first + 1, Len(tokens)), " "))

\* C17: no public lookup raises for an ordinary no-match: the price or the
\* sizes of an unknown product code, or the price of an unknown size of a
\* known code, come back as a not-found result (None, an empty list).
C17_NoMatchNeverRaises ==
    /\ (Returned("get_price") /\ ~KnownCode(arg.code)) => result = NoPrice
    /\ (Returned("list_sizes") /\ ~KnownCode(arg.code)) => result = <<>>
    /\ Returned("paint_assistant.get_price") => ~result.raised
    /\ Returned("paint_assistant.list_sizes") => ~result.raised

\* record i of the document has a top-level tier of the size
SizeIn(i, size) ==
    \E k \in 1..Len(DocProducts(raw_data)[i].prices) :
        Join(Split(Lower(DocProducts(raw_data)[i].prices[k].size)), " ")
          = Join(Split(Lower(size)), " ")

\* record i of the document has no top-level tier and a variant with a tier
\* whose label, as the index composes it, is the size
VariantSizeIn(i, size) ==
    LET product == DocProducts(raw_data)[i]
    IN  /\ Len(product.prices) = 0
        /\ \E v \in 1..Len(product.variants) :
             \E k \in 1..Len(product.variants[v].prices) :
               Join(Split(Lower(product.variants[v].variant_name \o " "
                                  \o U00E2 \o U20AC \o U201C \o " "
                                  \o product.variants[v].prices[k].size)), " ")
                 = Join(Split(Lower(size)), " ")

\* some record the document lists under the code has a tier of the size
KnownSize(code, size) ==
    \E i \in Listed(code) : SizeIn(i, size) \/ VariantSizeIn(i, size)

\* the first record the document lists under the code has a tier of the size
KnownSizeOfFirst(code, size) ==
    \E i \in Listed(code) : (\A j \in Listed(code) : i <= j) /\ SizeIn(i, size)

\* C17, amended: the lookups of the catalog index (data/prices.py) never
\* raise for a no-match: an unknown code, or an unknown size of a known
\* code, gives None from get_price and an unknown code gives [] from
\* list_sizes. The lookups of paint_assistant raise KeyError instead, as
\* their documentation says: get_price when the first record of the code
\* has no such size or the code is unknown, list_sizes when the code is
\* unknown. Otherwise they return a value.
C17_IndexReturnsScanRaises ==
    /\ (Returned("get_price") /\ ~KnownSize(arg.code, arg.size)) => result = NoPrice
    /\ (Returned("list_sizes") /\ ~KnownCode(arg.code)) => result = <<>>
    /\ Returned("paint_assistant.get_price") =>
         /\ result.raised <=> ~KnownSizeOfFirst(arg.code, arg.size)
         /\ result.raised => result.error = "KeyError"
    /\ Returned("paint_assistant.list_sizes") =>
         /\ result.raised <=> ~KnownCode(arg.code)
         /\ result.raised => result.error = "KeyError"

C17_Witness ==
    /\ Returned("paint_assistant.list_sizes")
    /\ arg.code = "ZZZZ"
    /\ ~KnownCode(arg.code)
    /\ result = KeyError(<<>>)
    /\ list_sizes(arg.code) = <<>>

\* codes equal after trimming and upper-casing
SameCode(c1, c2) == Upper(Strip(c1)) = Upper(Strip(c2))

\* sizes equal after trimming, lower-casing and collapsing whitespace runs
SameSize(s1, s2) == CollapseWS(Lower(Strip(s1))) = CollapseWS(Lower(Strip(s2)))

\* C18: price lookup is keyed on the trimmed, upper-cased code and on the
\* trimmed, lower-cased, whitespace-collapsed size: get_price and list_sizes
\* give the same answer for any two requests equal under that normalisation.
C18_NormalisedKeys ==
    /\ Returned("get_price") =>
         \A c \in LookupCodes, z \in LookupSizes :
           (SameCode(c, arg.code) /\ SameSize(z, arg.size)) => get_price(c, z) = result
    /\ Returned("list_sizes") =>
         \A c \in LookupCodes : SameCode(c, arg.code) => list_sizes(c) = result
    /\ Returned("paint_assistant.get_price") =>
         \A c \in LookupCodes, z \in LookupSizes :
           (SameCode(c, arg.code) /\ SameSize(z, arg.size))
             => paint_assistant_get_price(raw_data, c, z) = result
    /\ Returned("paint_assistant.list_sizes") =>
         \A c \in LookupCodes :
           SameCode(c, arg.code) => paint_assistant_list_sizes(raw_data, c) = result

C18_Witness ==
    /\ Returned("paint_assistant.get_price")
    /\ arg.code = " a119 "
    /\ arg.size = " 18   LTR   (DRUM)  "
    /\ result = Return(8000)
    /\ get_price("A119", "18 Ltr (Drum)") = 8000
    /\ get_price(arg.code, arg.size) = 8000

\* the tiers of a product record that share their canonical size key with
\* an earlier tier of the record and with no later one
LaterTwins(product) ==
    {j \in 1..Len(product.prices) :
       /\ \E i \in 1..(j - 1) : SameSize(product.prices[i].size, product.prices[j].size)
       /\ \A k \in (j + 1)..Len(product.prices) :
            ~SameSize(product.prices[k].size, product.prices[j].size)}

\* the labels of a list of sizes that normalise to the key of a label
LabelsLike(sizes, label) == SelectSeq(sizes, LAMBDA s : SameSize(s, label))

\* C19: when two tiers under one product code have labels that normalise to
\* the same key, one entry is kept for the key, with the label and the price
\* of the later tier: list_sizes shows one label for it and get_price
\* returns the later price.
C19_LaterTierWins ==
    \A n \in 1..Len(DocProducts(raw_data)) :
      LET product == DocProducts(raw_data)[n]
      IN  \A j \in LaterTwins(product) :
            LET later == product.prices[j]
            IN  /\ (Returned("list_sizes") /\ SameCode(arg.code, product.product_code))
                     => LabelsLike(result, later.size) = <<Strip(later.size)>>
                /\ (/\ Returned("get_price")
                    /\ SameCode(arg.code, product.product_code)
                    /\ SameSize(arg.size, later.size)) => result = later.price
                /\ (/\ Returned("paint_assistant.list_sizes")
                    /\ SameCode(arg.code, product.product_code))
                     => (~result.raised /\ Len(LabelsLike(result.value, later.size)) = 1)
                /\ (/\ Returned("paint_assistant.get_price")
                    /\ SameCode(arg.code, product.product_code)
                    /\ SameSize(arg.size, later.size)) => result = Return(later.price)

\* the pairs of records of the price document that share their normalised
\* product code with each other and with no third record
Twins ==
    LET products == DocProducts(raw_data)
    IN  {pair \in (1..Len(products)) \X (1..Len(products)) :
           /\ pair[1] < pair[2]
           /\ \A k \in 1..Len(products) :
                SameCode(products[k].product_code, products[pair[1]].product_code)
                  <=> k \in {pair[1], pair[2]}}

HasSize(product, size) ==
    \E k \in 1..Len(product.prices) : SameSize(product.prices[k].size, size)

\* C20: when two records of the price document share their
\* normalised product code, lookups by the code see only the later record's
\* name and price tiers, none of the earlier record's.
C20_LastRecordWins ==
    \A pair \in Twins :
      LET earlier == DocProducts(raw_data)[pair[1]]
          later == DocProducts(raw_data)[pair[2]]
      IN  /\ (Returned("list_sizes") /\ SameCode(arg.code, later.product_code)) =>
                /\ \A k \in 1..Len(result) : HasSize(later, result[k])
                /\ PriceEntry(arg.code).entry.product_names = <<later.product_name>>
          /\ (/\ Returned("get_price")
              /\ SameCode(arg.code, later.product_code)
              /\ ~HasSize(later, arg.size)) => result = NoPrice
          /\ (Returned("get_price_by_code") /\ Strip(arg.code) = Strip(later.product_code))
                => \A k \in 1..Len(result) : result[k].product_name = later.product_name

\* the labels '<variant name> - <size>' of the tiers of variants from
\* position v on, with the EN DASH as the separator
RECURSIVE VariantLabels(_, _)
VariantLabels(variants, v) ==
    IF v > Len(variants) THEN <<>>
    ELSE [k \in 1..Len(variants[v].prices) |->
            [label |-> variants[v].variant_name \o " " \o U2013 \o " "
                         \o variants[v].prices[k].size,
             price |-> variants[v].prices[k].price]]
         \o VariantLabels(variants, v + 1)

\* C21: for a product without top-level prices but with variants, every
\* variant tier is indexed under '<variant name> (EN DASH) <size>':
\* list_sizes returns these labels in document order and get_price resolves
\* each of them to the price of its tier.
C21_VariantLabels ==
    \A n \in 1..Len(DocProducts(raw_data)) :
      LET product == DocProducts(raw_data)[n]
          expected == VariantLabels(product.variants, 1)
      IN  (Len(product.prices) = 0 /\ Len(expected) > 0) =>
            /\ (Returned("list_sizes") /\ SameCode(arg.code, product.product_code))
                 => result = [k \in 1..Len(expected) |-> expected[k].label]
            /\ \A k \in 1..Len(expected) :
                 (/\ Returned("get_price")
                  /\ SameCode(arg.code, product.product_code)
                  /\ arg.size = expected[k].label) => result = expected[k].price

\* the index _load_price_data() builds from the price document
FullIndex == AddProducts(<<>>, DocProducts(raw_data), Upper(raw_data.currency))

\* the callers that found the cache empty and constructed an index
Builders == {c \in Callers : pc[c] \in {"building", "published", "built", "built_looked"}}

\* the index a caller holds once _load_price_data() has returned to it
Held(c) ==
    IF pc[c] \in {"returned", "built"} THEN result[c] ELSE result[c].index

HoldsIndex(c) == pc[c] \in {"returned", "built", "returned_looked", "built_looked"}

\* C22 as stated: under any interleaving of callers, two callers racing on
\* first use included, the index is constructed at most once and no caller
\* observes a partially built index.
C22_BuiltAtMostOnce ==
    op = "_load_price_data" =>
      /\ Cardinality(Builders) <= 1
      /\ \A c \in Callers : HoldsIndex(c) => Held(c) = FullIndex

\* C22, amended: without a lock every caller that finds the cache empty
\* constructs the index, so racing callers construct it more than once; yet
\* every caller is handed the complete index, the cache never holds a
\* partially built one, and once the cache is set no later build or lookup
\* changes its content.
C22_CompleteAndStable ==
    /\ [](op = "_load_price_data" =>
            /\ \A c \in Callers : HoldsIndex(c) => Held(c) = FullIndex
            /\ _PRICE_DATA.loaded => _PRICE_DATA.data = FullIndex)
    /\ [][(op = "_load_price_data" /\ _PRICE_DATA.loaded) => _PRICE_DATA' = _PRICE_DATA]_vars

C22_Witness ==
    /\ op = "_load_price_data"
    /\ Builders = Callers
    /\ pc["c1"] = "built_looked"
    /\ pc["c2"] = "built"
    /\ Len(FullIndex) = 2
    /\ result["c2"] = FullIndex
    /\ result["c1"].index = FullIndex

\* C23: price_lookup_tool called with a blank (empty or whitespace-only)
\* code short-circuits: found is False, requested_code is "", missing_fields
\* contains "code", the currency is the default currency, and the payload
\* carries no product, no price and no available_sizes, as no price lookup
\* was made.
C23_BlankCodeShortCircuits ==
    (Returned("price_lookup_tool") /\ Len(Strip(arg.code)) = 0)
    => (/\ ~result.found
        /\ result.requested_code = ""
        /\ result.requested_size = Strip(arg.size)
        /\ result.has_missing_fields
        /\ \E k \in 1..Len(result.missing_fields) : result.missing_fields[k] = "code"
        /\ result.missing_fields[1] = "code"
        /\ result.has_currency
        /\ result.currency = get_currency
        /\ ~result.has_product
        /\ ~result.has_price
        /\ ~result.has_available_sizes)

C23_Witness ==
    /\ Returned("price_lookup_tool")
    /\ arg.code = "  "
    /\ arg.size = "18 Ltr (Drum)"
    /\ ~result.found
    /\ result.requested_code = ""
    /\ result.missing_fields = <<"code">>
    /\ ~result.has_available_sizes

RECURSIVE LineNetTotal(_)
LineNetTotal(items) ==
    IF Len(items) = 0 THEN 0 ELSE Head(items).line_net + LineNetTotal(Tail(items))

\* C24: for rows whose amounts are whole fils, compute_totals returns the
\* subtotal, the sum of the rows' line_net; the VAT, 5% of the subtotal
\* rounded half-up to 0.01; and the total, subtotal + VAT (100.10 gives VAT
\* 5.01 and total 105.11).
C24_Totals ==
    Returned("compute_totals") =>
      /\ ~result.raised
      /\ result.value.subtotal = LineNetTotal(arg.items)
      /\ LET gap == 100 * result.value.vat - VAT_RATE * result.value.subtotal
         IN  IF result.value.subtotal >= 0 THEN gap \in -49..50 ELSE gap \in -50..49
      /\ result.value.total = result.value.subtotal + result.value.vat
      /\ arg.items = <<[line_net |-> 10010]>>
           => result.value = [subtotal |-> 10010, vat |-> 501, total |-> 10511]

\* the positions of the candidates whose score reaches the size threshold
Reaching == {i \in 1..Len(scores.size) : scores.size[i] >= size_similarity_threshold}

\* C25: _match_size_alias returns None or one element of available_sizes:
\* the highest-scoring candidate among those at or above the size
\* threshold, the earliest of them on a tie; it returns None exactly when no
\* candidate reaches the threshold or the size or the candidate list is
\* empty.
C25_BestAboveThreshold ==
    Returned("_match_size_alias") =>
      /\ result = None \/ \E i \in 1..Len(arg.available_sizes) : result = arg.available_sizes[i]
      /\ result = None <=>
           (Reaching = {} \/ Len(arg.size) = 0 \/ Len(arg.available_sizes) = 0)
      /\ result # None =>
           \E i \in Reaching :
             /\ result = arg.available_sizes[i]
             /\ \A j \in Reaching : scores.size[j] <= scores.size[i]
             /\ \A j \in Reaching : j < i => scores.size[j] < scores.size[i]

C25_Witness ==
    /\ Returned("_match_size_alias")
    /\ arg.size = "18 ltr"
    /\ arg.available_sizes = <<"1 Ltr", "3.6 Ltr (Gallon)", "18 Ltr (Drum)">>
    /\ scores.size = <<70, 100, 100>>
    /\ result = "3.6 Ltr (Gallon)"

\* C26: a closest-size substitution is never silent: a price reply that
\* quotes a size label whose normalised form differs from the normalised
\* form of the size asked for carries the clarification (closest size to
\* "<requested size>"), and a price reply whose label and requested size
\* normalise to the same key carries none.
C26_SubstitutionAnnounced ==
    (Returned("respond_to") /\ result.kind = "price") =>
      \A l \in {"How much is", "Price of"}, c \in Codes, j \in Joiners,
         z \in SizePhrases, e \in Ends :
        arg.message = l \o " " \o c \o " " \o j \o " " \o z \o e =>
          IF _normalize_size_phrase(result.size) # _normalize_size_phrase(z)
          THEN Join(Split(result.clarification), " ") = Join(Split(z), " ")
          ELSE result.clarification = ""

C26_Witness ==
    /\ Returned("respond_to")
    /\ arg.message = "How much is A119 in 1 Ltr?"
    /\ result.kind = "price"
    /\ result.size = "18 Ltr (Drum)"
    /\ result.price = 8000
    /\ result.clarification = "1 Ltr"

\* every alias target of the table maps to itself
TargetsFixed(aliases) ==
    \A k \in DOMAIN aliases :
      aliases[k] \in DOMAIN aliases /\ aliases[aliases[k]] = aliases[k]

\* every alias target of the table is one token in normal form: lower-case
\* letters, digits and periods, no digit directly before a letter
TargetsNormal(aliases) ==
    \A k \in DOMAIN aliases :
      SizeTokens(Lower(SpaceDigitLetter(aliases[k]))) = <<aliases[k]>>

\* lower-casing turns no character of the string into an ASCII letter that
\* was not one
PlainLetters(s) == \A i \in 1..Len(s) : Ch(s, i) # U212A

\* C27 as stated: _normalize_size_phrase is idempotent for every string and
\* every alias table in which each alias target maps to itself.
C27_Idempotent ==
    (Returned("_normalize_size_phrase twice") /\ TargetsFixed(arg.size_aliases))
    => result.again = result.key

\* C27, amended: _normalize_size_phrase is idempotent with the default alias
\* table, and with every alias table in which each alias target maps to
\* itself and is one normal-form token, for every string whose lower-casing
\* introduces no new ASCII letter.
C27_IdempotentOnNormalTargets ==
    (Returned("_normalize_size_phrase twice") /\ PlainLetters(arg.value)) =>
      /\ arg.size_aliases = size_aliases => result.again = result.key
      /\ (TargetsFixed(arg.size_aliases) /\ TargetsNormal(arg.size_aliases))
           => result.again = result.key

C27_Witness ==
    /\ Returned("_normalize_size_phrase twice")
    /\ arg.value = "18 LITRE DRUM"
    /\ arg.size_aliases = size_aliases
    /\ TargetsFixed(arg.size_aliases)
    /\ TargetsNormal(arg.size_aliases)
    /\ result.key = "18 ltr drum"
    /\ result.again = "18 ltr drum"

\* the positions of the index entry of a code whose label is the given one
Labelled(code, label) ==
    LET Positions(e) ==
            IF ~e.found THEN {}
            ELSE {k \in 1..Len(e.entry.prices) : e.entry.prices[k].size = label}
    IN  Positions(PriceEntry(code))

\* C28: for every product code c of the price index and every label s that
\* list_sizes(c) returns, get_price(c, s) is not None and is the price stored
\* for that label.
C28_ListedSizesArePriced ==
    (/\ Returned("get_price")
     /\ \E i \in 1..Len(_load_price_data) : _load_price_data[i].code = arg.code
     /\ \E k \in 1..Len(list_sizes(arg.code)) : list_sizes(arg.code)[k] = arg.size)
    => (/\ result # NoPrice
        /\ Labelled(arg.code, arg.size) # {}
        /\ \A k \in Labelled(arg.code, arg.size) :
             result = PriceEntry(arg.code).entry.prices[k].price)

C28_Witness ==
    /\ Returned("get_price")
    /\ arg.code = "A015"
    /\ arg.size = "White " \o U00E2 \o U20AC \o U201C \o " 18 Ltr (Drum)"
    /\ list_sizes("A015")[1] = arg.size
    /\ result = 6000

\* the replies of the about path
AboutKinds == {"product_summary", "closest_match", "did_you_mean", "name_not_found"}

\* C29: every message "Tell me about <name>" is answered by the about path
\* (a product summary, a closest-match summary or a name-not-found reply),
\* never by the price path, also when <name> contains "price", "cost" or
\* another price trigger.
C29_AboutStaysAbout ==
    Returned("respond_to") =>
      \A t \in Topics, e \in Ends :
        arg.message = "Tell me about " \o t \o e => result.kind \in AboutKinds

\* C30: _flatten_products returns exactly the nodes bearing a product_name,
\* each once, in the document pre-order of collect_product_records, so that
\* the first partial name match is the first matching product of the
\* document.
C30_DocumentOrder ==
    LET collected == collect_product_records(payload)
        Named(i) == _normalize_text(Get(collected[i], "product_name", ""))
        Matches(query) == {i \in 1..Len(collected) : Contains(Named(i), query)}
        Exact(query) == {i \in 1..Len(collected) : Named(i) = query}
    IN  /\ (op \in {"find_product_by_name", "get_all_products"} /\ products_cache.loaded)
             => products_cache.data = collected
        /\ (/\ Returned("find_product_by_name")
            /\ Len(_normalize_text(arg.name)) > 0
            /\ Exact(_normalize_text(arg.name)) = {}
            /\ Matches(_normalize_text(arg.name)) # {})
           => \E i \in Matches(_normalize_text(arg.name)) :
                /\ result = collected[i]
                /\ \A j \in Matches(_normalize_text(arg.name)) : i <= j

====
